---- MODULE Spec2Model ----
(***************************************************************************)
(* Model of the merge-and-convert pipeline of simple-docs:                 *)
(*   merge.service.js   (mergeTemplate, flattenKeys and the converters)    *)
(*   docx-templating.js (renderInternal, isDocxError, mapDocxDetails)      *)
(* One behaviour is one mergeTemplate attempt: the request is drawn at     *)
(* Start, every awaited external call may succeed or fail, and the         *)
(* attempt ends in Done or Failed.                                         *)
(***************************************************************************)
EXTENDS Integers, Sequences, FiniteSets, TLC

VARIABLES
  pc,         \* position of the attempt inside mergeTemplate
  req,        \* the argument object {templateId, data, outputType, userId, fromWebhook}
  template,   \* const template (prisma.template.findUnique result)
  buf,        \* const buf (template bytes)
  merged,     \* mergedDocx / mergedHtml
  finalHtml,  \* const finalHtml
  outBuffer,  \* let outBuffer
  stamp,      \* const stamp = `${safeBase}-${Date.now()}`
  filePath,   \* let filePath
  steps,      \* the steps the attempt has executed, in order
  invoked,    \* the renderers, sanitizer and converters called, in order
  thrown,     \* the error raised inside the templating engine, if any
  err,        \* the error mergeTemplate rejected with
  result,     \* the value mergeTemplate resolved with
  files,      \* outputs/ directory: set of <<path, bytes>> written
  jobs,       \* MergeJob table: sequence of created rows
  lint,       \* one lintDocxBuffer(buffer) call: its position, input and result
  san,        \* sanitizeHtmlBuffer applied to a markup document, and again to its output
  conv,       \* one convertHtmlToDocxBuffer(htmlBuffer) call
  proc,       \* the soffice child process of the runSoffice call in progress, and its promise
  pdf,        \* the convertHtmlToPdfBuffer calls in progress and the browsers launched
  res,        \* the HTTP response of the route that called mergeTemplate
  applied,    \* the pure helper applied, its argument and what it returned
  race,       \* mergeTemplate attempts that overlap: the clock, their stamps, the outputs directory and the job table
  store,      \* Template and Field rows after the uploads so far
  audit,      \* the audit step of an html merge: the merged and final markup and what was logged
  hook,       \* a request to the webhook or the CSV route: its verification, its rows and the merges made for them
  up          \* an upload through POST /upload, the object store, the uploads directory and the Template table, and a later load of the template

\* the variables of a mergeTemplate attempt
mergeVars == << pc, req, template, buf, merged, finalHtml, outBuffer, stamp,
                filePath, steps, invoked, thrown, err, result, files, jobs >>

\* the variables of the other operations, which a mergeTemplate attempt leaves alone
aux == << lint, san, conv, proc, pdf, res, applied, race, store, audit, hook, up >>

vars == << pc, req, template, buf, merged, finalHtml, outBuffer, stamp,
           filePath, steps, invoked, thrown, err, result, files, jobs, lint, san,
           conv, proc, pdf, res, applied, race, store, audit, hook, up >>

-----------------------------------------------------------------------------
(* Bounds *)

\* Date.now() values an attempt may observe: 0..MaxTime
MaxTime == 1
\* largest number of sub-errors in a batch error raised by the engine
MaxBatch == 2

-----------------------------------------------------------------------------
(* JavaScript values *)

Undefined == "undefined"

Scalar(v) == [t |-> "scalar", v |-> v]
Null      == [t |-> "null"]
Array     == [t |-> "array"]
Obj(e)    == [t |-> "object", e |-> e]

\* payloads a caller may send as `data`
Payloads ==
  { Null,
    Obj(<< >>),
    Obj(<< <<"name", Scalar("Ada")>> >>),
    Obj(<< <<"name", Null>>, <<"client", Obj(<< <<"name", Scalar("X")>> >>)>> >>),
    Obj(<< <<"client.name", Scalar("X")>>, <<"name", Scalar("A")>>,
           <<"extra", Array>> >>),
    Obj(<< <<"other", Scalar("x")>>, <<"client", Obj(<< >>)>> >>) }

-----------------------------------------------------------------------------
(* Template table and uploads/ directory *)

NoTemplate ==
  [id |-> "null", name |-> << >>, fields |-> << >>, tags |-> << >>, empty |-> FALSE]

\* rows of the Template table with their Field rows; `tags` are the
\* placeholders of the stored file, `empty` tells that the stored file has no
\* bytes
TemplateTable ==
  [ t1 |-> [id |-> "t1", name |-> <<"a", ".", "d", "o", "c", "x">>,
            fields |-> <<"name">>, tags |-> <<"name">>, empty |-> FALSE],
    t2 |-> [id |-> "t2", name |-> <<"b", ".", "D", "O", "C", "X">>,
            fields |-> <<"name", "client.name">>,
            tags |-> <<"name", "client.name">>, empty |-> FALSE],
    t3 |-> [id |-> "t3", name |-> <<"c", ".", "h", "t", "m", "l">>,
            fields |-> <<"name">>, tags |-> <<"name">>, empty |-> FALSE],
    t4 |-> [id |-> "t4", name |-> <<"d", ".", "h", "t", "m">>,
            fields |-> << >>, tags |-> << >>, empty |-> TRUE],
    t5 |-> [id |-> "t5", name |-> <<"e", ".", "t", "x", "t">>,
            fields |-> <<"name">>, tags |-> <<"name">>, empty |-> FALSE] ]

TemplateIds == DOMAIN TemplateTable

Requests ==
  [templateId : (TemplateIds \cup {"nope"}), data : Payloads, outputType : {"docx", "pdf", "html", "txt"},
   userId : {Undefined, "u1"}, fromWebhook : BOOLEAN]

-----------------------------------------------------------------------------
(* Strings as character sequences *)

Lower(c) ==
  CASE c = "A" -> "a" [] c = "B" -> "b" [] c = "C" -> "c" [] c = "D" -> "d"
    [] c = "E" -> "e" [] c = "F" -> "f" [] c = "G" -> "g" [] c = "H" -> "h"
    [] c = "I" -> "i" [] c = "J" -> "j" [] c = "K" -> "k" [] c = "L" -> "l"
    [] c = "M" -> "m" [] c = "N" -> "n" [] c = "O" -> "o" [] c = "P" -> "p"
    [] c = "Q" -> "q" [] c = "R" -> "r" [] c = "S" -> "s" [] c = "T" -> "t"
    [] c = "U" -> "u" [] c = "V" -> "v" [] c = "W" -> "w" [] c = "X" -> "x"
    [] c = "Y" -> "y" [] c = "Z" -> "z"
    [] OTHER -> c

toLowerCase(s) == [i \in 1..Len(s) |-> Lower(s[i])]

endsWith(s, suf) ==
  /\ Len(s) >= Len(suf)
  /\ SubSeq(s, Len(s) - Len(suf) + 1, Len(s)) = suf

\* /\.docx$/i.test(name)
isDocxName(name) == endsWith(toLowerCase(name), <<".", "d", "o", "c", "x">>)

\* faulty variant: every name counts as an HTML template
isHtmlName_any(name) == TRUE

\* /\.html?$/i.test(name)
isHtmlName(name) ==
  \/ endsWith(toLowerCase(name), <<".", "h", "t", "m">>)
  \/ endsWith(toLowerCase(name), <<".", "h", "t", "m", "l">>)

\* [\w.\- ]
AllowedChar(c) == c \in {"a", "b", "c", "d", "e", "h", "l", "m", "o", "t", "x", "y", "C", "D", "H", "L", "M", "O", "T", "X", "0", "1", "_"} \cup {".", "-", " "}

RECURSIVE lastIndexOf(_, _, _)
lastIndexOf(s, c, i) ==
  IF i = 0 THEN 0 ELSE IF s[i] = c THEN i ELSE lastIndexOf(s, c, i - 1)

RECURSIVE stripTrailing(_, _)
stripTrailing(s, c) ==
  IF Len(s) > 1 /\ s[Len(s)] = c THEN stripTrailing(SubSeq(s, 1, Len(s) - 1), c)
  ELSE s

\* path.basename(name) on POSIX
basename(name) ==
  LET s == stripTrailing(name, "/")
      k == lastIndexOf(s, "/", Len(s))
  IN IF s = <<"/">> THEN << >> ELSE SubSeq(s, k + 1, Len(s))

\* .replace(/[^\w.\- ]+/g, "_")
RECURSIVE replaceDisallowed(_, _)
replaceDisallowed(s, inRun) ==
  IF s = << >> THEN << >>
  ELSE IF AllowedChar(Head(s)) THEN <<Head(s)>> \o replaceDisallowed(Tail(s), FALSE)
  ELSE IF inRun THEN replaceDisallowed(Tail(s), TRUE)
  ELSE <<"_">> \o replaceDisallowed(Tail(s), TRUE)

\* .replace(/\.[^.]+$/, "")
stripExtension(s) ==
  LET k == lastIndexOf(s, ".", Len(s))
  IN IF k > 0 /\ k < Len(s) THEN SubSeq(s, 1, k - 1) ELSE s

\* faulty variant: the stored name is used as it is, minus its extension
safeBase_raw(name) == stripExtension(name)

safeBase(name) == stripExtension(replaceDisallowed(basename(name), FALSE))

\* path.join(dir, file) on POSIX: the segments of dir followed by those of
\* file, normalized (empty and "." segments dropped, ".." removes the segment
\* before it)
pathJoin(dir, file) ==
  LET RECURSIVE walk(_, _, _)
      walk(done, seg, rest) ==
        LET closed == IF seg = << >> \/ seg = << "." >> THEN done
                      ELSE IF seg = << ".", "." >>
                        THEN IF done # << >> /\ done[Len(done)] # << ".", "." >>
                               THEN SubSeq(done, 1, Len(done) - 1)
                               ELSE Append(done, seg)
                      ELSE Append(done, seg)
        IN IF rest = << >> THEN closed
           ELSE IF Head(rest) = "/" THEN walk(closed, << >>, Tail(rest))
           ELSE walk(done, Append(seg, Head(rest)), Tail(rest))
  IN walk(dir, << >>, file)

\* path.join(OUTPUTS_DIR, `${stamp}.${ext}`) with stamp = `${safeBase}-${Date.now()}`
OutputPath(st, ext) ==
  [dir |-> "outputs", base |-> st.base, time |-> st.time, ext |-> ext]

NoPath == [dir |-> "none", base |-> << >>, time |-> 0, ext |-> "none"]

-----------------------------------------------------------------------------
(* Buffers *)

\* a buffer is described by its format, the component that produced it, the
\* template it stems from, whether it passed the sanitizer and whether it has
\* no bytes
Bytes(fmt, via, tpl, sanitized) ==
  [fmt |-> fmt, via |-> via, tpl |-> tpl, sanitized |-> sanitized, empty |-> FALSE]

NoBytes == Bytes("none", "none", "null", FALSE)

-----------------------------------------------------------------------------
(* Errors *)

NoProps == [present |-> FALSE]
NoErrors == [kind |-> "undefined"]
ErrorsArray(items) == [kind |-> "array", items |-> items]

Props(id, explanation, xtag, file, offset, errors) ==
  [present |-> TRUE, id |-> id, explanation |-> explanation, xtag |-> xtag,
   file |-> file, offset |-> offset, errors |-> errors]

NoDetails == [present |-> FALSE, list |-> << >>]
Details(list) == [present |-> TRUE, list |-> list]

\* an Error object; oid is the object's identity
JsError(oid, class, message, status, details, props, cause) ==
  [oid |-> oid, class |-> class, message |-> message, status |-> status,
   details |-> details, props |-> props, cause |-> cause]

PlainError(oid, message) ==
  JsError(oid, "Error", message, Undefined, NoDetails, NoProps, "none")

NoError == PlainError("none", "")

RECURSIVE join(_, _)
join(s, sep) ==
  IF s = << >> THEN ""
  ELSE IF Len(s) = 1 THEN s[1]
  ELSE s[1] \o sep \o join(Tail(s), sep)

\* new Error(`Missing required fields: ${missing.join(" ,")}`); err.status = 422
MissingFieldsError(missing) ==
  JsError("missing", "Error", "Missing required fields: " \o join(missing, " ,"),
          "422", NoDetails, NoProps, "none")

-----------------------------------------------------------------------------
(* docx-templating.js *)

\* DOCX_OPTIONS.nullGetter: throws for the tag that resolved to null/undefined
nullGetter(tag) ==
  JsError("nullGetter", "Error", "TEMPLATE_PARSE_ERROR", Undefined,
          Details(<< [id |-> "undefined_tag",
                      explanation |-> "Tag \"" \o tag \o "\" is undefined"] >>),
          NoProps, "none")

\* class TemplateParseError extends Error
TemplateParseError(details, cause) ==
  JsError("tpe", "TemplateParseError", "TEMPLATE_PARSE_ERROR", Undefined,
          Details(details), NoProps, cause.oid)

Truthy(s) == s \notin {Undefined, ""}

isDocxError(e) ==
  /\ e.props.present
  /\ (e.props.errors.kind # "undefined" \/ Truthy(e.props.id))

\* er.properties?.f
Prop(er, f) == IF er.props.present THEN er.props[f] ELSE Undefined

mapDocxDetails(e) ==
  LET list == IF e.props.present /\ e.props.errors.kind = "array"
              THEN e.props.errors.items ELSE << e >>
  IN [i \in 1..Len(list) |->
        [id |-> Prop(list[i], "id"), explanation |-> Prop(list[i], "explanation"),
         xtag |-> Prop(list[i], "xtag"), file |-> Prop(list[i], "file"),
         offset |-> Prop(list[i], "offset")]]

(* The templating engine (docxtemplater behind PizZip) as the code sees it:  *)
(* opening the archive may throw, render() may throw any error object, and   *)
(* a tag whose value is null/undefined is handed to options.nullGetter.      *)

SubError(i) ==
  JsError("sub" \o ToString(i), "Error", "TemplateError", Undefined, NoDetails,
          Props("duplicate_open_tag", "Duplicate open tag", "{{ name",
                "word/document.xml", "42", NoErrors), "none")

BatchDocxError(n) ==
  JsError("batch" \o ToString(n), "Error", "Multi error", Undefined, NoDetails,
          Props("multi_error", "The template has multiple errors", Undefined,
                Undefined, Undefined,
                ErrorsArray([i \in 1..n |-> SubError(i)])), "none")

CorruptZipError == PlainError("zip", "Corrupted zip")

\* what doc.render() may throw by itself (state.throwShape of the mock): a
\* single templating error; a batch without an id of its own, one sub-error
\* without properties; properties.errors set but not an array; properties
\* without id and without errors; an unrelated error; batches of sub-errors
ThrowShapes ==
  { JsError("single", "Error", "TemplateError", Undefined, NoDetails,
            Props("undefined_tag", "Tag is undefined", Undefined, Undefined,
                  Undefined, NoErrors), "none"),
    JsError("batchNoId", "Error", "Multi error", Undefined, NoDetails,
            Props(Undefined, Undefined, Undefined, Undefined, Undefined,
                  ErrorsArray(<< SubError(1),
                                 JsError("sub0", "Error", "bare", Undefined,
                                         NoDetails, NoProps, "none") >>)), "none"),
    JsError("oddErrors", "Error", "TemplateError", Undefined, NoDetails,
            Props(Undefined, "odd", Undefined, Undefined, Undefined,
                  [kind |-> "other"]), "none"),
    JsError("noIdProps", "Error", "Weird", Undefined, NoDetails,
            Props(Undefined, "no id", Undefined, Undefined, Undefined, NoErrors),
            "none"),
    PlainError("io", "random-io-error") }
  \cup { BatchDocxError(n) : n \in 0..MaxBatch }

\* one run of the engine: does the archive open, what the constructor throws
\* (NoError: nothing), does render() throw by itself and what
EngineBehaviours ==
  { [zipOk |-> FALSE, ctorThrows |-> NoError, shouldThrow |-> FALSE, throwShape |-> NoError],
    [zipOk |-> TRUE, ctorThrows |-> NoError, shouldThrow |-> FALSE, throwShape |-> NoError] }
  \cup { [zipOk |-> TRUE, ctorThrows |-> e, shouldThrow |-> FALSE, throwShape |-> NoError] :
           e \in { BatchDocxError(n) : n \in 1..MaxBatch } }
  \cup { [zipOk |-> TRUE, ctorThrows |-> NoError, shouldThrow |-> TRUE, throwShape |-> e] :
           e \in ThrowShapes }

\* scope[tag] of the engine's default parser
Lookup(data, tag) ==
  IF data.t # "object" THEN Null
  ELSE LET hits == SelectSeq(data.e, LAMBDA kv : kv[1] = tag)
       IN IF hits = << >> THEN Null ELSE hits[Len(hits)][2]

\* what doc.render(data) raises, or NoError
RenderRaises(buffer, data, allowNulls, engine) ==
  LET unresolved == SelectSeq(TemplateTable[buffer.tpl].tags,
                             LAMBDA tag : Lookup(data, tag).t = "null")
  IN IF engine.shouldThrow THEN engine.throwShape
     ELSE IF unresolved # << >> /\ ~allowNulls THEN nullGetter(unresolved[1])
     ELSE NoError

\* the error raised by the libraries anywhere between new PizZip(buffer) and
\* doc.render(data), or NoError
EngineRaises(buffer, data, allowNulls, engine) ==
  IF ~engine.zipOk THEN CorruptZipError
  ELSE IF engine.ctorThrows # NoError THEN engine.ctorThrows
  ELSE RenderRaises(buffer, data, allowNulls, engine)

RenderThrows(e) == [ok |-> FALSE, value |-> NoBytes, error |-> e]

\* new PizZip and new Docxtemplater run before the try; only doc.render(data)
\* is inside it
renderInternal(buffer, data, allowNulls, engine) ==
  IF ~engine.zipOk THEN RenderThrows(CorruptZipError)
  ELSE IF engine.ctorThrows # NoError THEN RenderThrows(engine.ctorThrows)
  ELSE LET e == RenderRaises(buffer, data, allowNulls, engine)
       IN IF e = NoError
            THEN [ok |-> TRUE, error |-> NoError,
                  value |-> Bytes("docx", "docxtemplater", buffer.tpl, FALSE)]
          ELSE IF isDocxError(e)
            THEN RenderThrows(TemplateParseError(mapDocxDetails(e), e))
          ELSE RenderThrows(e)

renderDocxBufferOrThrow(templateBuffer, data, engine) ==
  renderInternal(templateBuffer, data, FALSE, engine)

\* faulty variant: the linter renders in strict mode
lintRender_strict(buffer, engine) == renderInternal(buffer, Obj(<< >>), FALSE, engine)

\* renderInternal(buffer, {}, { allowNulls: true })
lintRender(buffer, engine) == renderInternal(buffer, Obj(<< >>), TRUE, engine)

\* the catch block of lintDocxBuffer
lintCatch(e) ==
  IF e.class = "TemplateParseError" THEN e.details.list 
  ELSE << [id |-> "unknown_error", explanation |-> e.message] >>

\* try { renderInternal(...); return [] } catch (e) { ... }
lintDocxBuffer(buffer, engine) ==
  LET r == lintRender(buffer, engine)
  IN IF r.ok THEN << >> ELSE lintCatch(r.error)

-----------------------------------------------------------------------------
(* merge.service.js: flattenKeys and the placeholder contract *)

\* faulty variant: the path of a nested key forgets the prefix
RECURSIVE flattenEntries_noPrefix(_, _)
flattenEntries_noPrefix(es, prefix) ==
  IF es = << >> THEN << >>
  ELSE (IF es[1][2].t = "object" THEN flattenEntries_noPrefix(es[1][2].e, es[1][1])
        ELSE << es[1][1] >>)
       \o flattenEntries_noPrefix(Tail(es), prefix)

RECURSIVE flattenEntries(_, _)
flattenEntries(es, prefix) ==
  IF es = << >> THEN << >>
  ELSE LET k == es[1][1]
           v == es[1][2]
           path == IF prefix # "" THEN prefix \o "." \o k ELSE k
       IN (IF v.t = "object" THEN flattenEntries(v.e, path) ELSE << path >>)
          \o flattenEntries(Tail(es), prefix)

\* Object.entries(obj || {})
flattenKeys(obj) == flattenEntries(IF obj.t = "object" THEN obj.e ELSE << >>, "")

Range(s) == { s[i] : i \in 1..Len(s) }

RECURSIVE Dedup(_)
Dedup(s) ==
  IF s = << >> THEN << >>
  ELSE LET r == Dedup(SubSeq(s, 1, Len(s) - 1))
       IN IF s[Len(s)] \in Range(r) THEN r ELSE Append(r, s[Len(s)])

\* new Set(template.fields.map((f) => f.name)), in insertion order
allowedOf(tpl) == Dedup(tpl.fields)


\* faulty variant: only the first missing field is reported
missingOf_first(allowed, provided) ==
  LET m == SelectSeq(allowed, LAMBDA k : k \notin Range(provided))
  IN IF m = << >> THEN m ELSE << m[1] >>

\* faulty variant: the missing-required check is skipped
missingOf_none(allowed, provided) == << >>

\* faulty variant: undeclared keys are rejected like missing ones
missingOf_extras(allowed, provided) ==
  SelectSeq(allowed, LAMBDA k : k \notin Range(provided))
    \o SelectSeq(provided, LAMBDA k : k \notin Range(allowed))

missingOf(allowed, provided) == SelectSeq(allowed, LAMBDA k : k \notin Range(provided))

\* largest nesting depth of the objects inside a payload
MaxNest == 1

\* largest length of a stored template name
MaxName == 4

\* JSON objects of nesting depth at most d: keys are distinct within an object
\* and may be empty or hold a dot, as a CSV header row or a JSON body may
RECURSIVE ObjectsUpTo(_)
ObjectsUpTo(d) ==
  LET keys == {"a", "b", "a.b", ""}
      pairs == { p \in keys \X keys : p[1] # p[2] }
      leaves == {Scalar("x"), Null, Array, [t |-> "undefined"]}
      flat == { Obj(<< >>) }
              \cup { Obj(<< <<k, v>> >>) : k \in keys, v \in leaves }
              \cup { Obj(<< <<p[1], v>>, <<p[2], w>> >>) :
                       p \in pairs, v \in leaves, w \in leaves }
  IN IF d = 0 THEN flat
     ELSE flat
          \cup { Obj(<< <<k, o>> >>) : k \in keys, o \in ObjectsUpTo(d - 1) }
          \cup { Obj(<< <<p[1], o>>, <<p[2], Scalar("x")>> >>) :
                   p \in pairs, o \in ObjectsUpTo(d - 1) }

-----------------------------------------------------------------------------
(* merge.service.js: renderers, sanitizer and converters *)

\* renderHtmlBuffer: Mustache.render(raw, data)
renderHtmlBuffer(templateBuffer, data) ==
  [Bytes("html", "mustache", templateBuffer.tpl, FALSE) EXCEPT
     !.empty = templateBuffer.empty]

\* the output starts with "<!DOCTYPE html>\n"
sanitizeHtmlBuffer(htmlBuffer) ==
  [htmlBuffer EXCEPT !.sanitized = TRUE, !.empty = FALSE]

convertDocxToPdfBuffer(docxBuffer) ==
  Bytes("pdf", "libreoffice-convert", docxBuffer.tpl, docxBuffer.sanitized)

convertHtmlToPdfBuffer(htmlBuffer) ==
  Bytes("pdf", "puppeteer", htmlBuffer.tpl, htmlBuffer.sanitized)

convertHtmlToDocxBuffer(htmlBuffer) ==
  Bytes("docx", "soffice", htmlBuffer.tpl, htmlBuffer.sanitized)

-----------------------------------------------------------------------------
(* merge.service.js: mergeTemplate *)

Step(name, ok) == [step |-> name, ok |-> ok]

MergeInit ==
  /\ pc = "Start"
  /\ req = [templateId |-> "nope", data |-> Null, outputType |-> "docx", userId |-> Undefined, fromWebhook |-> FALSE]
  /\ template = NoTemplate
  /\ buf = NoBytes
  /\ merged = NoBytes
  /\ finalHtml = NoBytes
  /\ outBuffer = NoBytes
  /\ stamp = [base |-> << >>, time |-> 0]
  /\ filePath = NoPath
  /\ steps = << >>
  /\ invoked = << >>
  /\ thrown = NoError
  /\ err = NoError
  /\ result = [jobId |-> 0, filePath |-> NoPath]
  /\ files = {}
  /\ jobs = << >>

\* a promise that is still pending / no error
Pending == [state |-> "pending"]
NoFailure == [kind |-> "none"]

\* convertHtmlToDocxBuffer has not been called
NoConv ==
  [pc |-> "idle", htmlBuffer |-> NoBytes, tmpDir |-> "none", rmAttempted |-> FALSE,
   stages |-> << >>, midOdt |-> FALSE, outDocx |-> FALSE, failure |-> NoFailure,
   value |-> NoBytes, promise |-> Pending]

\* number of convertHtmlToPdfBuffer calls that may be in progress together
MaxCalls == 2

\* no call has started and no browser has been launched
NoPdf == [calls |-> [c \in 1..MaxCalls |-> [pc |-> "idle", htmlBuffer |-> NoBytes, browser |-> 0, failure |-> NoFailure, value |-> NoBytes, promise |-> Pending]], browsers |-> << >>]

\* no child process has been spawned
NoProc ==
  [stage |-> "none", spawned |-> FALSE, errored |-> FALSE, closed |-> FALSE,
   code |-> "none", stdout |-> << >>, stderr |-> << >>, chunks |-> 0,
   promise |-> Pending]

\* number of mergeTemplate attempts that may overlap
MaxAttempts == 2

\* no request has arrived
NoHook ==
  [pc |-> "idle", route |-> "none", header |-> << >>, isBuffer |-> FALSE, raw |-> "none",
   parsed |-> FALSE, n |-> 0, k |-> 0, inflight |-> 0, calls |-> << >>,
   files |-> {}, jobs |-> << >>, status |-> 0, listed |-> << >>]

\* MIME types
Mime ==
  [docx |-> "application/vnd.openxmlformats-officedocument.wordprocessingml.document",
   html |-> "text/html"]

\* no type was detected
NoFileType == [ext |-> "none", mime |-> "none"]

\* nothing has been uploaded; no file of the uploads directory has the name
\* a new upload will be stamped
NoUp ==
  [pc |-> "idle", file |-> [originalname |-> << >>, content |-> "none"],
   fileType |-> NoFileType, linted |-> "none", errors |-> FALSE, warned |-> FALSE,
   status |-> 0,
   s3 |-> {}, uploads |-> {}, templates |-> << >>, mergeType |-> "none", buf |-> "none"]

\* no response has been sent
NoRes == [route |-> "none", status |-> 0, body |-> [error |-> ""]]

Init ==
  /\ MergeInit
  /\ lint = [pc |-> "idle"]
  /\ san = [pc |-> "idle"]
  /\ conv = NoConv
  /\ proc = NoProc
  /\ pdf = NoPdf
  /\ res = NoRes
  /\ applied = [fn |-> "none"]
  /\ race = [now |-> 0, files |-> {}, jobs |-> << >>,
             at |-> [i \in 1..MaxAttempts |->
                       [pc |-> "idle", templateId |-> "null", outputType |-> "none",
                        filePath |-> NoPath]]]
  /\ store = [templates |-> << >>, last |-> [matches |-> << >>, outcome |-> "none"]]
  /\ audit = [pc |-> "idle"]
  /\ hook = NoHook
  /\ up = NoUp

\* a variant that runs the step again after it threw
Throw_retry(name, e) ==
  /\ pc' = pc
  /\ err' = e
  /\ steps' = Append(steps, Step(name, FALSE))

\* the step `name` threw e: mergeTemplate rejects with e
Throw(name, e) ==
  /\ pc' = "Failed"
  /\ err' = e
  /\ steps' = Append(steps, Step(name, FALSE))

\* the step `name` completed; continue at `next`
Goto(name, next) ==
  /\ pc' = next
  /\ err' = err
  /\ steps' = Append(steps, Step(name, TRUE))

\* mergeTemplate({templateId, data, outputType, userId, fromWebhook}) is called
Start ==
  /\ pc = "Start"
  /\ \E r \in Requests : req' = r
  /\ pc' = "EnsureDirs"
  /\ UNCHANGED << template, buf, merged, finalHtml, outBuffer, stamp, filePath,
                  steps, invoked, thrown, err, result, files, jobs >>
  /\ UNCHANGED aux

\* await ensureOutputsDir()
EnsureOutputsDir ==
  /\ pc = "EnsureDirs"
  /\ \/ Goto("EnsureDirs", "FindTemplate")
     \/ Throw("EnsureDirs", PlainError("mkdir", "EACCES"))
  /\ UNCHANGED << req, template, buf, merged, finalHtml, outBuffer, stamp,
                  filePath, invoked, thrown, result, files, jobs >>
  /\ UNCHANGED aux

\* prisma.template.findUnique({where: {id: templateId}, include: {fields: true}})
findUnique(id) == IF id \in TemplateIds THEN TemplateTable[id] ELSE NoTemplate

\* const template = await prisma.template.findUnique(...);
\* if (!template) throw new Error("Template not found")
FindTemplate ==
  /\ pc = "FindTemplate"
  /\ \/ /\ findUnique(req.templateId) # NoTemplate
        /\ template' = findUnique(req.templateId)
        /\ Goto("FindTemplate", "Validate")
     \/ /\ findUnique(req.templateId) = NoTemplate
        /\ template' = NoTemplate
        /\ Throw("FindTemplate", PlainError("notFound", "Template not found"))
     \/ /\ template' = template
        /\ Throw("FindTemplate", PlainError("db", "database unavailable"))
  /\ UNCHANGED << req, buf, merged, finalHtml, outBuffer, stamp, filePath,
                  invoked, thrown, result, files, jobs >>
  /\ UNCHANGED aux

\* allowed / provided / extras / missing: the placeholder contract
Validate ==
  /\ pc = "Validate"
  /\ LET allowed == allowedOf(template)
         provided == flattenKeys(req.data)
         missing == missingOf(allowed, provided)
     IN IF missing # << >>
          THEN Throw("Validate", MissingFieldsError(missing))
          ELSE Goto("Validate", "TypeDetect")
  /\ UNCHANGED << req, template, buf, merged, finalHtml, outBuffer, stamp,
                  filePath, invoked, thrown, result, files, jobs >>
  /\ UNCHANGED aux

\* isDocx / isHtml; if (!isDocx && !isHtml) throw
TypeDetect ==
  /\ pc = "TypeDetect"
  /\ IF ~isDocxName(template.name) /\ ~isHtmlName(template.name)
       THEN Throw("TypeDetect",
                  PlainError("unsupported",
                             "Unsupported template type. Use .docx or .html"))
       ELSE Goto("TypeDetect", "LoadTemplate")
  /\ UNCHANGED << req, template, buf, merged, finalHtml, outBuffer, stamp,
                  filePath, invoked, thrown, result, files, jobs >>
  /\ UNCHANGED aux

\* const buf = await loadTemplateBuffer(template)
LoadTemplate ==
  /\ pc = "LoadTemplate"
  /\ \/ /\ buf' = [Bytes(IF isDocxName(template.name) THEN "docx" ELSE "html",
                         "uploads", template.id, FALSE) EXCEPT
                     !.empty = template.empty]
        /\ Goto("LoadTemplate", "Render")
     \/ /\ buf' = buf
        /\ Throw("LoadTemplate", PlainError("readFile", "ENOENT"))
  /\ UNCHANGED << req, template, merged, finalHtml, outBuffer, stamp, filePath,
                  invoked, thrown, result, files, jobs >>
  /\ UNCHANGED aux

\* catch (err) { if (err instanceof TemplateParseError) err.status = 422; throw err }
WithStatus(e) ==
  IF e.class = "TemplateParseError" THEN [e EXCEPT !.status = "422"] ELSE e

\* const stamp = `${safeBase}-${Date.now()}`;
\* mergedDocx = renderDocxBufferOrThrow(buf, data)
RenderDocx ==
  /\ pc = "Render"
  /\ isDocxName(template.name)
  /\ \E t \in 0..MaxTime : stamp' = [base |-> safeBase(template.name), time |-> t]
  /\ invoked' = Append(invoked, "renderDocxBufferOrThrow")
  /\ \E engine \in EngineBehaviours :
       LET r == renderDocxBufferOrThrow(buf, req.data, engine)
       IN /\ thrown' = EngineRaises(buf, req.data, FALSE, engine)
          /\ IF r.ok
               THEN /\ merged' = r.value
                    /\ Goto("Render", "Convert")
               ELSE /\ merged' = merged
                    /\ Throw("Render", WithStatus(r.error))
  /\ UNCHANGED << req, template, buf, finalHtml, outBuffer, filePath, result,
                  files, jobs >>
  /\ UNCHANGED aux

\* const stamp = `${safeBase}-${Date.now()}`;
\* const mergedHtml = renderHtmlBuffer(buf, data)
RenderHtml ==
  /\ pc = "Render"
  /\ isHtmlName(template.name)
  /\ \E t \in 0..MaxTime : stamp' = [base |-> safeBase(template.name), time |-> t]
  /\ invoked' = Append(invoked, "renderHtmlBuffer")
  /\ \/ /\ merged' = renderHtmlBuffer(buf, req.data)
        /\ Goto("Render", "Sanitize")
     \/ /\ merged' = merged
        /\ Throw("Render", PlainError("mustache", "Unclosed tag"))
  /\ UNCHANGED << req, template, buf, finalHtml, outBuffer, filePath, thrown,
                  result, files, jobs >>
  /\ UNCHANGED aux

\* faulty variant: the sanitizer is never applied
SanitizeApplies_never == FALSE

\* the condition of `fromWebhook ? sanitizeHtmlBuffer(mergedHtml) : mergedHtml`
SanitizeApplies == req.fromWebhook

\* const finalHtml = fromWebhook ? sanitizeHtmlBuffer(mergedHtml) : mergedHtml
\* (caller flagged untrusted)
Sanitize ==
  /\ pc = "Sanitize"
  /\ SanitizeApplies
  /\ finalHtml' = sanitizeHtmlBuffer(merged)
  /\ invoked' = Append(invoked, "sanitizeHtmlBuffer")
  /\ Goto("Sanitize", "Convert")
  /\ UNCHANGED << req, template, buf, merged, outBuffer, stamp, filePath,
                  thrown, result, files, jobs >>
  /\ UNCHANGED aux

\* const finalHtml = fromWebhook ? sanitizeHtmlBuffer(mergedHtml) : mergedHtml
\* (trusted caller)
SkipSanitize ==
  /\ pc = "Sanitize"
  /\ ~SanitizeApplies
  /\ finalHtml' = merged
  /\ pc' = "Convert"
  /\ UNCHANGED << req, template, buf, merged, outBuffer, stamp, filePath,
                  steps, invoked, thrown, err, result, files, jobs >>
  /\ UNCHANGED aux

\* faulty variant: html is accepted for every template type
ConversionPath_htmlFromDocx(isDocx, outputType) ==
  IF outputType = "html" THEN "passthrough"
  ELSE IF outputType = "docx" THEN (IF isDocx THEN "passthrough" ELSE "convertHtmlToDocxBuffer")
  ELSE IF outputType = "pdf"
    THEN (IF isDocx THEN "convertDocxToPdfBuffer" ELSE "convertHtmlToPdfBuffer")
  ELSE "reject"

\* faulty variant: the two HTML converters are exchanged
ConversionPath_swapped(isDocx, outputType) ==
  IF isDocx
    THEN CASE outputType = "docx" -> "passthrough"
           [] outputType = "pdf" -> "convertDocxToPdfBuffer"
           [] OTHER -> "reject"
    ELSE CASE outputType = "pdf" -> "convertHtmlToDocxBuffer"
           [] outputType = "docx" -> "convertHtmlToPdfBuffer"
           [] outputType = "html" -> "passthrough"
           [] OTHER -> "reject"

\* the branch of the outputType if-chain taken for a template type
ConversionPath(isDocx, outputType) ==
  IF isDocx
    THEN CASE outputType = "docx" -> "passthrough"
           [] outputType = "pdf" -> "convertDocxToPdfBuffer"
           [] OTHER -> "reject"
    ELSE CASE outputType = "pdf" -> "convertHtmlToPdfBuffer"
           [] outputType = "docx" -> "convertHtmlToDocxBuffer"
           [] outputType = "html" -> "passthrough"
           [] OTHER -> "reject"

PathTaken == ConversionPath(isDocxName(template.name), req.outputType)

\* a variant that passes the merged markup on as it was rendered
Artifact_merged == merged

\* the merged artifact handed on to the conversion chain
Artifact == IF isDocxName(template.name) THEN merged ELSE finalHtml

\* outBuffer = mergedDocx / finalHtml; filePath = path.join(OUTPUTS_DIR, ...)
Passthrough ==
  /\ pc = "Convert"
  /\ PathTaken = "passthrough"
  /\ outBuffer' = Artifact
  /\ filePath' = OutputPath(stamp, IF isDocxName(template.name) THEN "docx" ELSE "html")
  /\ pc' = "Write"
  /\ UNCHANGED << req, template, buf, merged, finalHtml, stamp, steps, invoked,
                  thrown, err, result, files, jobs >>
  /\ UNCHANGED aux

\* outBuffer = await convertDocxToPdfBuffer(mergedDocx)
ConvertDocxToPdf ==
  /\ pc = "Convert"
  /\ PathTaken = "convertDocxToPdfBuffer"
  /\ invoked' = Append(invoked, "convertDocxToPdfBuffer")
  /\ \/ /\ outBuffer' = convertDocxToPdfBuffer(merged)
        /\ filePath' = OutputPath(stamp, "pdf")
        /\ Goto("Convert", "Write")
     \/ /\ UNCHANGED << outBuffer, filePath >>
        /\ Throw("Convert", PlainError("libre", "conversion failed"))
  /\ UNCHANGED << req, template, buf, merged, finalHtml, stamp, thrown, result,
                  files, jobs >>
  /\ UNCHANGED aux

\* outBuffer = await convertHtmlToPdfBuffer(finalHtml)
ConvertHtmlToPdf ==
  /\ pc = "Convert"
  /\ PathTaken = "convertHtmlToPdfBuffer"
  /\ invoked' = Append(invoked, "convertHtmlToPdfBuffer")
  /\ \/ /\ outBuffer' = convertHtmlToPdfBuffer(finalHtml)
        /\ filePath' = OutputPath(stamp, "pdf")
        /\ Goto("Convert", "Write")
     \/ /\ UNCHANGED << outBuffer, filePath >>
        /\ Throw("Convert", PlainError("puppeteer", "render failed"))
  /\ UNCHANGED << req, template, buf, merged, finalHtml, stamp, thrown, result,
                  files, jobs >>
  /\ UNCHANGED aux

\* outBuffer = await convertHtmlToDocxBuffer(finalHtml)
ConvertHtmlToDocx ==
  /\ pc = "Convert"
  /\ PathTaken = "convertHtmlToDocxBuffer"
  /\ invoked' = Append(invoked, "convertHtmlToDocxBuffer")
  /\ \/ /\ outBuffer' = convertHtmlToDocxBuffer(finalHtml)
        /\ filePath' = OutputPath(stamp, "docx")
        /\ Goto("Convert", "Write")
     \/ /\ UNCHANGED << outBuffer, filePath >>
        /\ Throw("Convert", PlainError("soffice", "soffice exit code 1"))
  /\ UNCHANGED << req, template, buf, merged, finalHtml, stamp, thrown, result,
                  files, jobs >>
  /\ UNCHANGED aux

\* throw new Error("outputType must be ...")
RejectOutputType ==
  /\ pc = "Convert"
  /\ PathTaken = "reject"
  /\ Throw("Convert",
           PlainError("outputType",
                      IF isDocxName(template.name)
                        THEN "outputType must be 'docx' or 'pdf'"
                        ELSE "outputType must be 'docx','pdf', or 'html' for HTML templates"))
  /\ UNCHANGED << req, template, buf, merged, finalHtml, outBuffer, stamp,
                  filePath, invoked, thrown, result, files, jobs >>
  /\ UNCHANGED aux

\* faulty variant: the write is acknowledged but nothing reaches the disk
writeFile_lost(fs, path, data) == fs

\* faulty variant: a write to an existing path keeps the earlier file as well
writeFile_keep(fs, path, data) == fs \cup { << path, data >> }

\* fs.writeFile(path, data) creates or replaces the file at path
writeFile(fs, path, data) == { f \in fs : f[1] # path } \cup { << path, data >> }

\* await fs.writeFile(filePath, outBuffer)
WriteOutput ==
  /\ pc = "Write"
  /\ \/ /\ files' = writeFile(files, filePath, outBuffer)
        /\ Goto("Write", "CreateJob")
     \/ /\ files' = files
        /\ Throw("Write", PlainError("writeFile", "ENOSPC"))
  /\ UNCHANGED << req, template, buf, merged, finalHtml, outBuffer, stamp,
                  filePath, invoked, thrown, result, jobs >>
  /\ UNCHANGED aux

\* faulty variant: the row is stored with status queued
JobRow_queued(id) ==
  [id |-> id, templateId |-> template.id, data |-> req.data,
   outputType |-> req.outputType, status |-> "queued", filePath |-> filePath,
   userId |-> IF Truthy(req.userId) THEN req.userId ELSE "null"]

\* the row prisma.mergeJob.create inserts; id is SERIAL
JobRow(id) ==
  [id |-> id, templateId |-> template.id, data |-> req.data,
   outputType |-> req.outputType, status |-> "succeeded", filePath |-> filePath,
   userId |-> IF Truthy(req.userId) THEN req.userId ELSE "null"]

\* a variant that deletes the output file when the job cannot be stored
CreateJob_rollback ==
  /\ pc = "CreateJob"
  /\ \/ /\ jobs' = Append(jobs, JobRow(Len(jobs) + 1))
        /\ result' = [jobId |-> Len(jobs) + 1, filePath |-> filePath]
        /\ files' = files
        /\ Goto("CreateJob", "Done")
     \/ /\ UNCHANGED << jobs, result >>
        /\ files' = { f \in files : f[1] # filePath }
        /\ Throw("CreateJob", PlainError("db", "database unavailable"))
  /\ UNCHANGED << req, template, buf, merged, finalHtml, outBuffer, stamp,
                  filePath, invoked, thrown >>
  /\ UNCHANGED aux

\* const job = await prisma.mergeJob.create({data: {...}});
\* return { jobId: job.id, filePath }
CreateJob ==
  /\ pc = "CreateJob"
  /\ \/ /\ jobs' = Append(jobs, JobRow(Len(jobs) + 1))
        /\ result' = [jobId |-> Len(jobs) + 1, filePath |-> filePath]
        /\ Goto("CreateJob", "Done")
     \/ /\ UNCHANGED << jobs, result >>
        /\ Throw("CreateJob", PlainError("db", "database unavailable"))
  /\ UNCHANGED << req, template, buf, merged, finalHtml, outBuffer, stamp,
                  filePath, invoked, thrown, files >>
  /\ UNCHANGED aux

\* the routes that call mergeTemplate with these arguments: the webhook route
\* passes userId null and fromWebhook true, the JWT routes pass no fromWebhook;
\* the CSV route answers an outputType outside pdf/docx/html before any merge
RoutesOf(r) ==
  IF r.fromWebhook
    THEN IF r.userId = Undefined THEN {"webhook"} ELSE {}
    ELSE {"merge"} \cup (IF r.outputType \in {"pdf", "docx", "html"}
                           THEN {"merge-csv"} ELSE {})

\* faulty variant: every failure gets the generic answer
mergeCatch_generic(e) == [status |-> 400, body |-> [error |-> e.message]]

\* the catch block the three routes share:
\* if (err.message === "TEMPLATE_PARSE_ERROR" && err.details) 422 with details,
\* otherwise res.status(400).json({ error: err.message })
mergeCatch(e) ==
  IF e.message = "TEMPLATE_PARSE_ERROR" /\ e.details.present
    THEN [status |-> 422,
          body |-> [error |-> "Template has invalid Docxtemplater tags",
                    details |-> e.details.list]]
    ELSE [status |-> 400, body |-> [error |-> e.message]]

\* the route handler answers once mergeTemplate has returned or thrown:
\* res.status(200).json(result) on the manual route, res.json({ count, jobs })
\* on the row routes, the shared catch block on a failure
Respond ==
  /\ pc \in {"Done", "Failed"}
  /\ res = NoRes
  /\ \E route \in RoutesOf(req) :
       LET answer == IF pc = "Failed" THEN mergeCatch(err)
                     ELSE IF route = "merge" THEN [status |-> 200, body |-> result]
                     ELSE [status |-> 200, body |-> [count |-> 1, jobs |-> << result >>]]
       IN res' = [route |-> route, status |-> answer.status, body |-> answer.body]
  /\ UNCHANGED << mergeVars, lint, san, conv, proc, pdf, applied, race, store, audit, hook, up >>

Next ==
  \/ Start
  \/ EnsureOutputsDir
  \/ FindTemplate
  \/ Validate
  \/ TypeDetect
  \/ LoadTemplate
  \/ RenderDocx
  \/ RenderHtml
  \/ Sanitize
  \/ SkipSanitize
  \/ Passthrough
  \/ ConvertDocxToPdf
  \/ ConvertHtmlToPdf
  \/ ConvertHtmlToDocx
  \/ RejectOutputType
  \/ WriteOutput
  \/ CreateJob
  \/ Respond

Spec == Init /\ [][Next]_vars

\* every awaited call of an attempt that has been made eventually returns or
\* fails, so the step waiting on it is eventually taken; whether
\* mergeTemplate is called at all is up to the caller
FairSpec == Spec /\ WF_vars(Next /\ pc # "Start")


-----------------------------------------------------------------------------
(* sanitizeHtmlBuffer on the content of the buffer: markup as written, the   *)
(* document tree JSDOM builds from it, the two rewriting passes and the      *)
(* serialization                                                             *)

\* largest nesting depth of the elements written in a markup document
MaxDepth == 1

Text(data) == [kind |-> "text", data |-> data]
Element(tag, attrs, kids) == [kind |-> "element", tag |-> tag, attrs |-> attrs, kids |-> kids]
Attr(name, value) == [name |-> name, value |-> value]

\* tag names, as a template author may write them
Tags ==
  [p |-> << "p" >>,
   a |-> << "a" >>,
   img |-> << "i", "m", "g" >>,
   form |-> << "f", "o", "r", "m" >>,
   link |-> << "l", "i", "n", "k" >>,
   script |-> << "s", "c", "r", "i", "p", "t" >>,
   SCRIPT |-> << "S", "C", "R", "I", "P", "T" >>,
   iframe |-> << "i", "f", "r", "a", "m", "e" >>,
   object |-> << "o", "b", "j", "e", "c", "t" >>,
   embed |-> << "e", "m", "b", "e", "d" >>,
   html |-> << "h", "t", "m", "l" >>,
   head |-> << "h", "e", "a", "d" >>,
   body |-> << "b", "o", "d", "y" >>]

\* attribute names, as a template author may write them
Names ==
  [class |-> << "c", "l", "a", "s", "s" >>,
   href |-> << "h", "r", "e", "f" >>,
   HREF |-> << "H", "R", "E", "F" >>,
   src |-> << "s", "r", "c" >>,
   rel |-> << "r", "e", "l" >>,
   action |-> << "a", "c", "t", "i", "o", "n" >>,
   onclick |-> << "o", "n", "c", "l", "i", "c", "k" >>,
   ONLOAD |-> << "O", "N", "L", "O", "A", "D" >>,
   onerror |-> << "o", "n", "e", "r", "r", "o", "r" >>]

\* attribute values
Values ==
  [x |-> << "x" >>,
   js |-> << "j", "a", "v", "a", "s", "c", "r", "i", "p", "t", ":", "a", "(", ")" >>,
   jsSpaced |-> << " ", "J", "a", "v", "a", "S", "c", "r", "i", "p", "t", ":", "a", "(", ")" >>,
   remote |-> << "h", "t", "t", "p", "s", ":", "/", "/", "c", "d", "n", ".", "e", "x", "a", "m", "p", "l", "e", ".", "c", "o", "m", "/", "x", ".", "p", "n", "g" >>,
   import |-> << "i", "m", "p", "o", "r", "t" >>,
   stylesheet |-> << "s", "t", "y", "l", "e", "s", "h", "e", "e", "t" >>]

AttrLists ==
  { << >>,
    << Attr(Names.class, Values.x) >>,
    << Attr(Names.onclick, Values.x) >>,
    << Attr(Names.ONLOAD, Values.x), Attr(Names.class, Values.x) >>,
    << Attr(Names.onclick, Values.x), Attr(Names.onerror, Values.x) >>,
    << Attr(Names.href, Values.js) >>,
    << Attr(Names.HREF, Values.jsSpaced), Attr(Names.class, Values.x) >>,
    << Attr(Names.src, Values.js), Attr(Names.onerror, Values.x) >>,
    << Attr(Names.src, Values.remote) >>,
    << Attr(Names.href, Values.remote), Attr(Names.href, Values.js) >>,
    << Attr(Names.rel, Values.import), Attr(Names.href, Values.remote) >>,
    << Attr(Names.rel, Values.stylesheet), Attr(Names.href, Values.remote) >>,
    << Attr(Names.action, Values.js) >> }

\* the nodes of nesting depth at most d
RECURSIVE NodesUpTo(_)
NodesUpTo(d) ==
  IF d = 0
    THEN { Element(t, a, << >>) : t \in { Tags.p, Tags.a, Tags.img, Tags.form, Tags.link, Tags.script, Tags.SCRIPT, Tags.iframe, Tags.object, Tags.embed }, a \in AttrLists } \cup { Text("Hello") }
    ELSE NodesUpTo(d - 1)
         \cup { Element(t, a, << k, Text("Hello") >>) :
                  t \in { Tags.p, Tags.form, Tags.object }, a \in { << >>, << Attr(Names.onclick, Values.x), Attr(Names.class, Values.x) >> }, k \in NodesUpTo(d - 1) }

\* a markup document: an optional doctype line and the nodes written after it
Markup(doctype, nodes) == [doctype |-> doctype, nodes |-> nodes]

\* the parser keeps the first of several attributes of the same (lower-cased) name
RECURSIVE firstOfEachName(_)
firstOfEachName(attrs) ==
  IF attrs = << >> THEN << >>
  ELSE LET r == firstOfEachName(SubSeq(attrs, 1, Len(attrs) - 1))
           last == attrs[Len(attrs)]
       IN IF \E i \in 1..Len(r) : r[i].name = last.name THEN r ELSE Append(r, last)

parseAttrs(attrs) ==
  firstOfEachName([i \in 1..Len(attrs) |->
                     Attr(toLowerCase(attrs[i].name), attrs[i].value)])

\* the tree the HTML parser builds for the nodes: tag and attribute names are
\* lower-cased
RECURSIVE parseNodes(_)
parseNodes(nodes) ==
  [i \in 1..Len(nodes) |->
     IF nodes[i].kind = "text" THEN nodes[i]
     ELSE Element(toLowerCase(nodes[i].tag), parseAttrs(nodes[i].attrs),
                  parseNodes(nodes[i].kids))]

\* const dom = new JSDOM(htmlBuffer.toString("utf8")); dom.window.document
\* the documentElement: html, head and body are supplied when not written
JSDOM(markup) ==
  LET nodes == parseNodes(markup.nodes)
  IN IF Len(nodes) = 1 /\ nodes[1].kind = "element" /\ nodes[1].tag = Tags.html
       THEN nodes[1]
       ELSE Element(Tags.html, << >>,
                    << Element(Tags.head, << >>, << >>), Element(Tags.body, << >>, nodes) >>)

getAttribute(el, name) ==
  LET hits == SelectSeq(el.attrs, LAMBDA a : a.name = name)
  IN IF hits = << >> THEN Null ELSE Scalar(hits[1].value)

\* matches "script, iframe, object, embed, link[rel='import']"
matchesDisallowed(el) ==
  \/ el.tag \in { Tags.script, Tags.iframe, Tags.object, Tags.embed }
  \/ el.tag = Tags.link /\ getAttribute(el, Names.rel) = Scalar(Values.import)

\* faulty variant: images are dropped as well
removeDisallowed_images(nodes) ==
  LET RECURSIVE go(_)
      go(ns) ==
        IF ns = << >> THEN << >>
        ELSE LET n == ns[1]
             IN IF n.kind = "element" /\ (matchesDisallowed(n) \/ n.tag = Tags.img)
                  THEN go(Tail(ns))
                ELSE IF n.kind = "element"
                  THEN << [n EXCEPT !.kids = go(n.kids)] >> \o go(Tail(ns))
                ELSE << n >> \o go(Tail(ns))
  IN go(nodes)

\* doc.querySelectorAll("script, iframe, ...").forEach((n) => n.remove())
RECURSIVE removeDisallowed(_)
removeDisallowed(nodes) ==
  IF nodes = << >> THEN << >>
  ELSE LET n == nodes[1]
       IN IF n.kind = "element" /\ matchesDisallowed(n)
            THEN removeDisallowed(Tail(nodes))
          ELSE IF n.kind = "element"
            THEN << [n EXCEPT !.kids = removeDisallowed(n.kids)] >>
                 \o removeDisallowed(Tail(nodes))
          ELSE << n >> \o removeDisallowed(Tail(nodes))

IsSpace(c) == c \in { " ", "\t", "\n", "\r", "\f" }

RECURSIVE skipSpaces(_)
skipSpaces(v) ==
  IF v # << >> /\ IsSpace(v[1]) THEN skipSpaces(Tail(v)) ELSE v

startsWith(s, pre) == Len(s) >= Len(pre) /\ SubSeq(s, 1, Len(pre)) = pre

\* the attribute is removed by the callback of [...el.attributes].forEach
removesAttr(attr) ==
  LET name == toLowerCase(attr.name)
  IN \/ startsWith(name, << "o", "n" >>)   \* /^on/.test(name)
     \/ (name = Names.href \/ name = Names.src) 
        /\ startsWith(toLowerCase(skipSpaces(attr.value)),   \* /^\s*javascript:/i
                      << "j", "a", "v", "a", "s", "c", "r", "i", "p", "t", ":" >>)

\* faulty variant: iterating the live attribute list skips the attribute that
\* follows a removed one
RECURSIVE stripAttrs_live(_)
stripAttrs_live(attrs) ==
  IF attrs = << >> THEN << >>
  ELSE IF removesAttr(attrs[1])
    THEN IF Len(attrs) = 1 THEN << >>
         ELSE << attrs[2] >> \o stripAttrs_live(SubSeq(attrs, 3, Len(attrs)))
  ELSE << attrs[1] >> \o stripAttrs_live(Tail(attrs))

\* [...el.attributes].forEach((attr) => { ... el.removeAttribute(attr.name) })
stripAttrs(attrs) == SelectSeq(attrs, LAMBDA a : ~removesAttr(a))

\* doc.querySelectorAll("*").forEach((el) => ...)
RECURSIVE stripAll(_)
stripAll(nodes) ==
  [i \in 1..Len(nodes) |->
     IF nodes[i].kind = "text" THEN nodes[i]
     ELSE Element(nodes[i].tag, stripAttrs(nodes[i].attrs), stripAll(nodes[i].kids))]

\* "<!DOCTYPE html>\n" + doc.documentElement.outerHTML
serialize(root) == Markup(TRUE, << root >>)

\* sanitizeHtmlBuffer on the markup held by the buffer
sanitizeMarkup(markup) ==
  serialize(stripAll(removeDisallowed(<< JSDOM(markup) >>))[1])

\* what sanitizing a markup document leaves alone
sanFrame == << mergeVars, lint, conv, proc, pdf, res, applied, race, store, audit, hook, up >>

\* sanitizeHtmlBuffer(htmlBuffer) is called on some markup
SanitizeInput ==
  /\ san.pc = "idle"
  /\ \E x \in { Markup(dt, << n >>) : dt \in BOOLEAN, n \in NodesUpTo(MaxDepth) } : san' = [pc |-> "called", x |-> x]
  /\ UNCHANGED sanFrame

\* the call returns the rewritten markup
SanitizeOnce ==
  /\ san.pc = "called"
  /\ san' = [pc |-> "sanitized", x |-> san.x, out |-> sanitizeMarkup(san.x)]
  /\ UNCHANGED sanFrame

\* sanitizeHtmlBuffer is called on its own output
SanitizeTwice ==
  /\ san.pc = "sanitized"
  /\ san' = [pc |-> "twice", x |-> san.x, out |-> san.out,
             again |-> sanitizeMarkup(san.out)]
  /\ UNCHANGED sanFrame

SpecSanitize ==
  Init /\ [][
       \/ SanitizeInput
       \/ SanitizeOnce
       \/ SanitizeTwice
  ]_vars

-----------------------------------------------------------------------------
(* runSoffice and convertHtmlToDocxBuffer: the soffice child process, the    *)
(* promise wrapped around it, and the two-stage HTML -> ODT -> DOCX pipeline  *)
(* in its temporary directory                                                *)

\* largest number of data chunks a child process writes to its pipes
MaxChunks == 2

\* `${code}`
CodeChars(code) ==
  CASE code = "0" -> << "0" >> [] code = "1" -> << "1" >> [] code = "-2" -> << "-", "2" >>
    [] OTHER -> << "n", "u", "l", "l" >>

\* String.prototype.trim
RECURSIVE trimEnd(_)
trimEnd(str) ==
  IF str # << >> /\ IsSpace(str[Len(str)])
    THEN trimEnd(SubSeq(str, 1, Len(str) - 1)) ELSE str

trim(str) == trimEnd(skipSpaces(str))

\* faulty variant: stdout is preferred over stderr
informative_stdoutFirst(stderr, stdout) == IF stdout # << >> THEN stdout ELSE stderr

\* stderr || stdout
informative(stderr, stdout) == IF stderr # << >> THEN stderr ELSE stdout

\* new Error(`soffice exit code ${code}\n${stderr || stdout}`.trim()) with
\* e.code, e.stdout, e.stderr
ExitError(code, stdout, stderr) ==
  [kind |-> "exit",
   message |-> trim(<< "s", "o", "f", "f", "i", "c", "e", " ", "e", "x", "i", "t", " ", "c", "o", "d", "e", " " >> \o CodeChars(code) \o << "\n" >>
                    \o informative(stderr, stdout)),
   code |-> code, stdout |-> stdout, stderr |-> stderr]

\* the error object the child emits with 'error' when it cannot be started
SpawnError ==
  [kind |-> "spawn", message |-> << "s", "p", "a", "w", "n", " ", "s", "o", "f", "f", "i", "c", "e", " ", "E", "N", "O", "E", "N", "T" >>, code |-> "ENOENT",
   stdout |-> << >>, stderr |-> << >>]

Resolved(value) == [state |-> "resolved", value |-> value]
Rejected(e) == [state |-> "rejected", error |-> e]

\* faulty variant: a later resolve or reject replaces the outcome
settle_last(promise, outcome) == outcome

\* resolve / reject of a promise: only the first call has an effect
settle(promise, outcome) == IF promise.state = "pending" THEN outcome ELSE promise

\* proc.once("close", (code) => { ... })
onClose(code, stdout, stderr) ==
  IF code = "0"
    THEN Resolved([stdout |-> stdout, stderr |-> stderr])
    ELSE Rejected(ExitError(code, stdout, stderr))

\* an error of a file-system call
FsError(op) == [kind |-> "fs", op |-> op]

\* the merged (and possibly sanitized) HTML handed to the converter
HtmlArtifacts ==
  { Bytes("html", "mustache", t, sanitized) :
      t \in { x \in TemplateIds : isHtmlName(TemplateTable[x].name) },
      sanitized \in BOOLEAN }

\* what a convertHtmlToDocxBuffer call leaves alone
convFrame == << mergeVars, lint, san, pdf, res, applied, race, store, audit, hook, up >>

\* convertHtmlToDocxBuffer(htmlBuffer) is called; resolveSoffice() returns
ConvCall ==
  /\ conv.pc = "idle"
  /\ \E b \in HtmlArtifacts : conv' = [conv EXCEPT !.pc = "mkdtemp", !.htmlBuffer = b]
  /\ UNCHANGED proc
  /\ UNCHANGED convFrame

\* const tmpDir = await fs.mkdtemp(path.join(os.tmpdir(), "html2docx-"))
Mkdtemp ==
  /\ conv.pc = "mkdtemp"
  /\ \/ conv' = [conv EXCEPT !.pc = "writeInput", !.tmpDir = "exists"]
     \/ conv' = [conv EXCEPT !.pc = "settled", !.failure = FsError("mkdtemp"),
                             !.promise = Rejected(FsError("mkdtemp"))]
  /\ UNCHANGED proc
  /\ UNCHANGED convFrame

\* await fs.writeFile(inHtml, htmlBuffer), before the try block
WriteInput ==
  /\ conv.pc = "writeInput"
  /\ \/ conv' = [conv EXCEPT !.pc = "stage1"]
     \/ conv' = [conv EXCEPT !.pc = "settled", !.failure = FsError("writeFile"),
                             !.promise = Rejected(FsError("writeFile"))]
  /\ UNCHANGED proc
  /\ UNCHANGED convFrame

\* runSoffice(cmd, args, cwd): const proc = spawn(cmd, args, { cwd })
spawn(stage) == [NoProc EXCEPT !.stage = stage, !.spawned = TRUE]

\* 1. HTML -> ODT: await runSoffice(soffice, [... "--convert-to", "odt" ...], tmpDir)
RunStage1 ==
  /\ conv.pc = "stage1"
  /\ proc' = spawn("odt")
  /\ conv' = [conv EXCEPT !.pc = "await1", !.stages = Append(@, "odt")]
  /\ UNCHANGED convFrame

\* proc.stdout.on("data", (d) => (stdout += d.toString()))
StdoutData ==
  /\ proc.spawned /\ ~proc.closed /\ ~proc.errored
  /\ proc.chunks < MaxChunks
  /\ \E d \in { << "o", "k", "\n" >> } :
       proc' = [proc EXCEPT !.stdout = @ \o d, !.chunks = @ + 1]
  /\ UNCHANGED conv
  /\ UNCHANGED convFrame

\* a variant that puts a new chunk in front of what was captured
StderrData_prepend ==
  /\ proc.spawned /\ ~proc.closed /\ ~proc.errored
  /\ proc.chunks < MaxChunks
  /\ \E d \in { << "E", "r", "r", "\n" >>, << "\n" >> } :
       proc' = [proc EXCEPT !.stderr = d \o @, !.chunks = @ + 1]
  /\ UNCHANGED conv
  /\ UNCHANGED convFrame

\* proc.stderr.on("data", (d) => (stderr += d.toString()))
StderrData ==
  /\ proc.spawned /\ ~proc.closed /\ ~proc.errored
  /\ proc.chunks < MaxChunks
  /\ \E d \in { << "E", "r", "r", "\n" >>, << "\n" >> } :
       proc' = [proc EXCEPT !.stderr = @ \o d, !.chunks = @ + 1]
  /\ UNCHANGED conv
  /\ UNCHANGED convFrame

\* proc.once("error", reject): the process could not be started
ErrorEvent ==
  /\ proc.spawned /\ ~proc.closed /\ ~proc.errored
  /\ proc.chunks = 0
  /\ proc' = [proc EXCEPT !.errored = TRUE,
                          !.promise = settle(@, Rejected(SpawnError))]
  /\ UNCHANGED conv
  /\ UNCHANGED convFrame

\* proc.once("close", (code) => ...); a process that exits with 0 may or may
\* not have written its output file
CloseEvent ==
  /\ proc.spawned /\ ~proc.closed
  /\ \E code \in { "0", "1", "null", "-2" }, produced \in BOOLEAN :
       /\ produced => (code = "0" /\ ~proc.errored)
       /\ proc' = [proc EXCEPT !.closed = TRUE, !.code = code,
                               !.promise = settle(@, onClose(code, proc.stdout, proc.stderr))]
       /\ conv' = IF proc.stage = "odt" THEN [conv EXCEPT !.midOdt = produced]
                  ELSE [conv EXCEPT !.outDocx = produced]
  /\ UNCHANGED convFrame

\* the await of runSoffice resumes: the next statement, or the finally block
AwaitSoffice ==
  /\ conv.pc \in {"await1", "await2"}
  /\ proc.promise.state # "pending"
  /\ conv' = IF proc.promise.state = "resolved"
               THEN [conv EXCEPT !.pc = IF conv.pc = "await1" THEN "access" ELSE "read"]
               ELSE [conv EXCEPT !.pc = "finally", !.failure = proc.promise.error]
  /\ UNCHANGED proc
  /\ UNCHANGED convFrame

\* a variant that starts the second stage without looking for the .odt file
AccessOdt_unchecked ==
  /\ conv.pc = "access"
  /\ conv' = [conv EXCEPT !.pc = "stage2"]
  /\ UNCHANGED proc
  /\ UNCHANGED convFrame

\* await fs.access(midOdt)
AccessOdt ==
  /\ conv.pc = "access"
  /\ conv' = IF conv.midOdt THEN [conv EXCEPT !.pc = "stage2"]
             ELSE [conv EXCEPT !.pc = "finally", !.failure = FsError("access")]
  /\ UNCHANGED proc
  /\ UNCHANGED convFrame

\* 2. ODT -> DOCX: await runSoffice(soffice, [... "--convert-to", "docx" ...], tmpDir)
RunStage2 ==
  /\ conv.pc = "stage2"
  /\ proc' = spawn("docx")
  /\ conv' = [conv EXCEPT !.pc = "await2", !.stages = Append(@, "docx")]
  /\ UNCHANGED convFrame

\* return await fs.readFile(outDocx)
ReadDocx ==
  /\ conv.pc = "read"
  /\ conv' = IF conv.outDocx
               THEN [conv EXCEPT !.pc = "finally",
                                 !.value = convertHtmlToDocxBuffer(conv.htmlBuffer)]
               ELSE [conv EXCEPT !.pc = "finally", !.failure = FsError("readFile")]
  /\ UNCHANGED proc
  /\ UNCHANGED convFrame

\* a variant whose finally block lets the error of fs.rm escape
Cleanup_masking ==
  /\ conv.pc = "finally"
  /\ \E removed \in BOOLEAN :
       conv' = [conv EXCEPT !.pc = "settled",
                            !.rmAttempted = TRUE,
                            !.tmpDir = IF removed THEN "removed" ELSE "exists",
                            !.promise = IF ~removed THEN Rejected(FsError("rm"))
                                        ELSE IF conv.failure = NoFailure
                                          THEN Resolved(conv.value)
                                          ELSE Rejected(conv.failure)]
  /\ UNCHANGED proc
  /\ UNCHANGED convFrame

\* finally { try { await fs.rm(tmpDir, { recursive: true, force: true }) } catch {} }
\* then the call returns the buffer or rethrows
Cleanup ==
  /\ conv.pc = "finally"
  /\ \E removed \in BOOLEAN :
       conv' = [conv EXCEPT !.pc = "settled",
                            !.rmAttempted = TRUE,
                            !.tmpDir = IF removed THEN "removed" ELSE "exists",
                            !.promise = IF conv.failure = NoFailure
                                          THEN Resolved(conv.value)
                                          ELSE Rejected(conv.failure)]
  /\ UNCHANGED proc
  /\ UNCHANGED convFrame

SpecSoffice ==
  Init /\ [][
       \/ ConvCall
       \/ Mkdtemp
       \/ WriteInput
       \/ RunStage1
       \/ StdoutData
       \/ StderrData
       \/ ErrorEvent
       \/ CloseEvent
       \/ AwaitSoffice
       \/ AccessOdt
       \/ RunStage2
       \/ ReadDocx
       \/ Cleanup
  ]_vars

-----------------------------------------------------------------------------
(* convertHtmlToPdfBuffer: calls that may overlap, each with the browser it  *)
(* launches                                                                  *)

\* an error raised by puppeteer
BrowserError(op) == [kind |-> "puppeteer", op |-> op]

\* faulty variant: every call uses one pooled browser
newBrowser_pooled(browsers) == 1

\* puppeteer.launch creates a new Chromium instance
newBrowser(browsers) == Len(browsers) + 1

pdfFrame == << mergeVars, lint, san, conv, proc, res, applied, race, store, audit, hook, up >>

PdfStep(c, call) == pdf' = [pdf EXCEPT !.calls[c] = call]

\* convertHtmlToPdfBuffer(htmlBuffer) is called
PdfCall(c) ==
  /\ pdf.calls[c].pc = "idle"
  /\ \E b \in HtmlArtifacts :
       PdfStep(c, [pdf.calls[c] EXCEPT !.pc = "launch", !.htmlBuffer = b])
  /\ UNCHANGED pdfFrame

\* const browser = await puppeteer.launch({ ... }), before the try block
Launch(c) ==
  /\ pdf.calls[c].pc = "launch"
  /\ \/ LET id == newBrowser(pdf.browsers)
            opened == [state |-> "open", closes |-> 0]
        IN pdf' = [calls |-> [pdf.calls EXCEPT ![c].pc = "newPage", ![c].browser = id],
                   browsers |-> IF id > Len(pdf.browsers)
                                  THEN Append(pdf.browsers, opened)
                                  ELSE [pdf.browsers EXCEPT ![id] = [@ EXCEPT !.state = "open"]]]
     \/ PdfStep(c, [pdf.calls[c] EXCEPT !.pc = "settled",
                                        !.failure = BrowserError("launch"),
                                        !.promise = Rejected(BrowserError("launch"))])
  /\ UNCHANGED pdfFrame

\* const page = await browser.newPage()
NewPage(c) ==
  /\ pdf.calls[c].pc = "newPage"
  /\ \/ PdfStep(c, [pdf.calls[c] EXCEPT !.pc = "setContent"])
     \/ PdfStep(c, [pdf.calls[c] EXCEPT !.pc = "finally", !.failure = BrowserError("newPage")])
  /\ UNCHANGED pdfFrame

\* await page.setContent(html, { waitUntil: "networkidle0" })
SetContent(c) ==
  /\ pdf.calls[c].pc = "setContent"
  /\ \/ PdfStep(c, [pdf.calls[c] EXCEPT !.pc = "pdf"])
     \/ PdfStep(c, [pdf.calls[c] EXCEPT !.pc = "finally", !.failure = BrowserError("setContent")])
  /\ UNCHANGED pdfFrame

\* return await page.pdf({ format: "Letter" })
PagePdf(c) ==
  /\ pdf.calls[c].pc = "pdf"
  /\ \/ PdfStep(c, [pdf.calls[c] EXCEPT !.pc = "finally",
                                        !.value = convertHtmlToPdfBuffer(pdf.calls[c].htmlBuffer)])
     \/ PdfStep(c, [pdf.calls[c] EXCEPT !.pc = "finally", !.failure = BrowserError("pdf")])
  /\ UNCHANGED pdfFrame

\* finally { await browser.close() }: the instance is gone afterwards; a
\* close() that rejects replaces the outcome of the try block
CloseBrowser(c) ==
  /\ pdf.calls[c].pc = "finally"
  /\ LET call == pdf.calls[c]
         id == call.browser
         closed == [pdf.browsers EXCEPT ![id] = [state |-> "closed", closes |-> @.closes + 1]]
     IN \/ pdf' = [calls |-> [pdf.calls EXCEPT ![c].pc = "settled",
                                               ![c].promise =
                                                 IF call.failure = NoFailure
                                                   THEN Resolved(call.value)
                                                   ELSE Rejected(call.failure)],
                   browsers |-> closed]
        \/ pdf' = [calls |-> [pdf.calls EXCEPT ![c].pc = "settled",
                                               ![c].failure = BrowserError("close"),
                                               ![c].promise = Rejected(BrowserError("close"))],
                   browsers |-> closed]
  /\ UNCHANGED pdfFrame

SpecPdf ==
  Init /\ [][
       \/ \E c \in 1..MaxCalls : PdfCall(c)
       \/ \E c \in 1..MaxCalls : Launch(c)
       \/ \E c \in 1..MaxCalls : NewPage(c)
       \/ \E c \in 1..MaxCalls : SetContent(c)
       \/ \E c \in 1..MaxCalls : PagePdf(c)
       \/ \E c \in 1..MaxCalls : CloseBrowser(c)
  ]_vars

-----------------------------------------------------------------------------
(* flattenKeys applied to one payload *)

appliedFrame == << mergeVars, lint, san, conv, proc, pdf, res, race, store, audit, hook, up >>

\* const provided = flattenKeys(data)
FlattenKeysCall ==
  /\ applied.fn = "none"
  /\ \E obj \in ObjectsUpTo(MaxNest) \cup {Null, [t |-> "undefined"]} :
       applied' = [fn |-> "flattenKeys", arg |-> obj, out |-> flattenKeys(obj)]
  /\ UNCHANGED appliedFrame

SpecFlatten == Init /\ [][FlattenKeysCall]_vars

\* safeBase, stamp and filePath of mergeTemplate for a stored name, a value of
\* Date.now() and an output type
OutputPathCall ==
  /\ applied.fn = "none"
  /\ \E n \in 0..MaxName, t \in 0..MaxTime, o \in {"docx", "pdf", "html"} :
       \E name \in [1..n -> {"/", ".", "a", "\\", "$"}] :
         LET ext == [docx |-> << "d", "o", "c", "x" >>, pdf |-> << "p", "d", "f" >>,
                     html |-> << "h", "t", "m", "l" >>]
             file == safeBase(name) \o << "-", ToString(t), "." >> \o ext[o]
         IN applied' = [fn |-> "filePath",
                        arg |-> [name |-> name, now |-> t, outputType |-> o],
                        out |-> pathJoin(<< << "outputs" >> >>, file)]
  /\ UNCHANGED appliedFrame

SpecPath == Init /\ [][OutputPathCall]_vars

-----------------------------------------------------------------------------
(* mergeTemplate attempts that overlap: each computes its stamp from         *)
(* Date.now(), writes its output and creates its job row                     *)

raceFrame == << mergeVars, lint, san, conv, proc, pdf, res, applied, store, audit, hook, up >>

\* mergeTemplate is called and gets as far as the template's bytes
RaceStart(i) ==
  /\ race.at[i].pc = "idle"
  /\ \E t \in {"t1", "t3"}, o \in {"docx", "pdf"} :
       race' = [race EXCEPT !.at[i] = [@ EXCEPT !.pc = "stamp", !.templateId = t,
                                                !.outputType = o]]
  /\ UNCHANGED raceFrame

\* a millisecond passes
Tick ==
  /\ race.now < MaxTime
  /\ race' = [race EXCEPT !.now = @ + 1]
  /\ UNCHANGED raceFrame

\* const stamp = `${safeBase}-${Date.now()}`;
\* filePath = path.join(OUTPUTS_DIR, `${stamp}.${outputType}`)
RaceStamp(i) ==
  /\ race.at[i].pc = "stamp"
  /\ LET st == [base |-> safeBase(TemplateTable[race.at[i].templateId].name),
                time |-> race.now]
     IN race' = [race EXCEPT !.at[i] =
                   [@ EXCEPT !.pc = "write",
                             !.filePath = OutputPath(st, race.at[i].outputType)]]
  /\ UNCHANGED raceFrame

\* await fs.writeFile(filePath, outBuffer): no flag, no lock
RaceWrite(i) ==
  /\ race.at[i].pc = "write"
  /\ \/ race' = [race EXCEPT !.at[i].pc = "job",
                             !.files = writeFile(@, race.at[i].filePath, [attempt |-> i])]
     \/ race' = [race EXCEPT !.at[i].pc = "failed"]
  /\ UNCHANGED raceFrame

\* await prisma.mergeJob.create({ data: { ..., status: "succeeded", filePath } })
RaceCreateJob(i) ==
  /\ race.at[i].pc = "job"
  /\ \/ race' = [race EXCEPT !.at[i].pc = "done",
                             !.jobs = Append(@, [id |-> Len(@) + 1, attempt |-> i,
                                                 templateId |-> race.at[i].templateId,
                                                 outputType |-> race.at[i].outputType,
                                                 status |-> "succeeded",
                                                 filePath |-> race.at[i].filePath])]
     \/ race' = [race EXCEPT !.at[i].pc = "failed"]
  /\ UNCHANGED raceFrame

SpecRace ==
  Init /\ [][
       \/ \E i \in 1..MaxAttempts : RaceStart(i)
       \/ Tick
       \/ \E i \in 1..MaxAttempts : RaceStamp(i)
       \/ \E i \in 1..MaxAttempts : RaceWrite(i)
       \/ \E i \in 1..MaxAttempts : RaceCreateJob(i)
  ]_vars

-----------------------------------------------------------------------------
(* template upload: the placeholders found in the uploaded text become the   *)
(* Field rows of a new Template                                              *)

\* uploads in one behaviour
MaxUploads == 2

\* placeholder occurrences in one uploaded text
MaxMatches == 2

\* what an upload leaves alone
storeFrame == << mergeVars, lint, san, conv, proc, pdf, res, applied, race, audit, hook, up >>

\* the substrings /{{\s*([\w\.]+)\s*}}/g finds, as their lexemes
Occurrences ==
  { << "{{", "name", "}}" >>,
    << "{{", " ", "name", " ", "}}" >>,
    << "{{", " ", "client.name", "}}" >>,
    << "{{", "Name", " ", " ", "}}" >> }

\* m.replace(/{{\s*|\s*}}/g, "")
stripWrappers(m) == SelectSeq(m, LAMBDA c : c \notin {"{{", "}}", " "})[1]

\* a variant that keeps every occurrence
extractPlaceholders_all(matches) ==
  [i \in 1..Len(matches) |-> stripWrappers(matches[i])]

\* [...new Set(matches.map(...))]
extractPlaceholders(matches) ==
  Dedup([i \in 1..Len(matches) |-> stripWrappers(matches[i])])

\* prisma.template.create with nested Field rows: the unique index on
\* (templateId, name) rejects the whole create, and the database may fail
storeTemplateAndFields(fieldNames) ==
  IF \E i, j \in 1..Len(fieldNames) : i # j /\ fieldNames[i] = fieldNames[j]
  THEN { "P2002" }
  ELSE { "created", "error" }

\* POST /upload past its checks: extract the placeholders, store the template
Upload ==
  /\ Len(store.templates) < MaxUploads
  /\ store.last.outcome \in {"none", "created"}
  /\ \E matches \in UNION { [1..n -> Occurrences] : n \in 0..MaxMatches } :
       LET placeholders == extractPlaceholders(matches)
       IN \E outcome \in storeTemplateAndFields(placeholders) :
            store' = [templates |->
                        IF outcome = "created"
                        THEN Append(store.templates,
                                    [id |-> Len(store.templates) + 1,
                                     fields |-> placeholders])
                        ELSE store.templates,
                      last |-> [matches |-> matches, outcome |-> outcome]]
  /\ UNCHANGED storeFrame

\* the next request after one that was answered 500
UploadAgain ==
  /\ store.last.outcome \in {"P2002", "error"}
  /\ store' = [store EXCEPT !.last = [matches |-> << >>, outcome |-> "none"]]
  /\ UNCHANGED storeFrame

SpecUpload == Init /\ [][Upload \/ UploadAgain]_vars

-----------------------------------------------------------------------------
(* the audit of the sanitizer inside mergeTemplate: the merged markup as     *)
(* bytes, the final markup as bytes, and the warning written to the console  *)

\* what the audit step leaves alone
auditFrame == << mergeVars, lint, san, conv, proc, pdf, res, applied, race, store, hook, up >>

\* the attributes of a start tag: name="value" after a space, each
RECURSIVE writeAttrs(_)
writeAttrs(attrs) ==
  IF attrs = << >> THEN << >>
  ELSE << " " >> \o attrs[1].name \o << "=", "\"" >> \o attrs[1].value \o << "\"" >>
       \o writeAttrs(Tail(attrs))

\* outerHTML of a list of nodes: text as its characters, img, link and embed
\* without an end tag
RECURSIVE writeNodes(_)
writeNodes(nodes) ==
  IF nodes = << >> THEN << >>
  ELSE LET n == nodes[1]
       IN (IF n.kind = "text" THEN << "H", "e", "l", "l", "o" >>
           ELSE << "<" >> \o n.tag \o writeAttrs(n.attrs) \o << ">" >>
                \o (IF toLowerCase(n.tag) \in { Tags.img, Tags.link, Tags.embed } THEN << >>
                    ELSE writeNodes(n.kids) \o << "<", "/" >> \o n.tag \o << ">" >>))
          \o writeNodes(Tail(nodes))

\* the content of an html buffer: the doctype line, if any, and the nodes
toBytes(markup) ==
  (IF markup.doctype
     THEN << "<", "!", "D", "O", "C", "T", "Y", "P", "E", " ", "h", "t", "m", "l", ">", "\n" >>
     ELSE << >>)
  \o writeNodes(markup.nodes)

\* merged markup: one node, alone or inside a written html/head/body frame,
\* with or without a doctype line
MergedDocs ==
  LET nodes == NodesUpTo(0)
                 \cup { Element(<< "P" >>, << >>, << Text("Hello") >>),
                        Element(Tags.p, << >>, << Text("Hello") >>),
                        Element(Tags.p,
                                << Attr(Names.onclick, << "a", "(", "1", "2", ")" >>) >>,
                                << Text("Hello") >>) }
      framed(n) == Element(Tags.html, << >>,
                           << Element(Tags.head, << >>, << >>),
                              Element(Tags.body, << >>, << n >>) >>)
  IN { Markup(dt, << n >>) : dt \in BOOLEAN, n \in nodes }
     \cup { Markup(dt, << framed(n) >>) : dt \in BOOLEAN, n \in nodes }

\* mergedHtml has been rendered for a caller
AuditRender ==
  /\ audit.pc = "idle"
  /\ \E fromWebhook \in BOOLEAN, mergedHtml \in MergedDocs :
       audit' = [pc |-> "rendered", fromWebhook |-> fromWebhook, mergedHtml |-> mergedHtml]
  /\ UNCHANGED auditFrame

\* const finalHtml = fromWebhook ? sanitizeHtmlBuffer(mergedHtml) : mergedHtml;
\* if (fromWebhook && finalHtml.length !== mergedHtml.length) console.warn(...)
AuditSanitize ==
  /\ audit.pc = "rendered"
  /\ LET final == IF audit.fromWebhook THEN sanitizeMarkup(audit.mergedHtml)
                      ELSE audit.mergedHtml
     IN audit' = [pc |-> "audited", fromWebhook |-> audit.fromWebhook,
                  mergedHtml |-> audit.mergedHtml, finalHtml |-> final,
                  warned |-> /\ audit.fromWebhook
                             /\ Len(toBytes(final)) # Len(toBytes(audit.mergedHtml))]
  /\ UNCHANGED auditFrame

SpecAudit == Init /\ [][AuditRender \/ AuditSanitize]_vars

-----------------------------------------------------------------------------
(* the webhook route behind verifyHmac, and the CSV route: verification of   *)
(* the signature, parsing of the body, and one mergeTemplate call per row    *)

\* longest x-signature header, in characters
MaxHeader == 4

\* largest number of rows in a body
MaxRows == 3

\* what a request to these routes leaves alone
hookFrame == << mergeVars, lint, san, conv, proc, pdf, res, applied, race, store, audit, up >>

\* crypto.createHmac("sha256", WEBHOOK_SECRET).update(raw).digest(), as hex
\* characters; the digest is one byte long here
createHmac(raw) == IF raw = "b1" THEN << "a", "1" >> ELSE << "b", "2" >>

\* Buffer.from(sigHex, "hex"): pairs of hex digits up to the first pair that
\* is not one; a single trailing digit is dropped
RECURSIVE fromHex(_)
fromHex(str) ==
  IF Len(str) < 2 \/ ~({str[1], str[2]} \subseteq {"a", "b", "1", "2"}) THEN << >>
  ELSE << << str[1], str[2] >> >> \o fromHex(SubSeq(str, 3, Len(str)))

\* verifyHmac(req, res, next): the status it answers, or 0 when it calls next()
verifyHmac(header, isBuffer, raw) ==
  LET sigHex == trim(header)
      expectedSignature == fromHex(createHmac(raw))
      provided == fromHex(sigHex)
  IN IF sigHex = << >> THEN 401
     ELSE IF ~isBuffer THEN 400
     ELSE IF Len(provided) # Len(expectedSignature) \/ provided # expectedSignature THEN 401
     ELSE 0

\* POST /webhooks/templates/:templateId arrives
HookRequest ==
  /\ hook.pc = "idle"
  /\ \E header \in UNION { [1..l -> {"a", "b", "1", "2", "z", " "}] : l \in 0..MaxHeader },
        isBuffer \in BOOLEAN, raw \in {"b1", "b2"} :
       hook' = [NoHook EXCEPT !.pc = "verify", !.route = "webhook", !.header = header,
                              !.isBuffer = isBuffer, !.raw = raw]
  /\ UNCHANGED hookFrame

\* the verifyHmac middleware runs
VerifyHmac ==
  /\ hook.pc = "verify"
  /\ LET status == verifyHmac(hook.header, hook.isBuffer, hook.raw)
     IN hook' = IF status = 0 THEN [hook EXCEPT !.pc = "parse"]
                ELSE [hook EXCEPT !.pc = "answered", !.status = status]
  /\ UNCHANGED hookFrame

\* the handler reads the content type and parses the body into rows
HookParse ==
  /\ hook.pc = "parse"
  /\ \/ hook' = [hook EXCEPT !.pc = "answered", !.status = 415]
     \/ hook' = [hook EXCEPT !.pc = "answered", !.status = 400]
     \/ hook' = [hook EXCEPT !.pc = "answered", !.status = 413, !.parsed = TRUE, !.n = 1001]
     \/ \E n \in 0..MaxRows : hook' = [hook EXCEPT !.pc = "rows", !.parsed = TRUE, !.n = n]
  /\ UNCHANGED hookFrame

\* POST /templates/:templateId/merge-csv arrives, authenticated: the
\* outputType, the file and the CSV text are checked and the rows parsed
CsvRequest ==
  /\ hook.pc = "idle"
  /\ \/ hook' = [NoHook EXCEPT !.pc = "answered", !.route = "merge-csv", !.status = 400]
     \/ \E n \in 1..MaxRows :
          hook' = [NoHook EXCEPT !.pc = "rows", !.route = "merge-csv", !.parsed = TRUE, !.n = n]
  /\ UNCHANGED hookFrame

\* for (const row of rows) { const job = await mergeTemplate({...}) ...
RowStart ==
  /\ hook.pc = "rows"
  /\ hook.k < hook.n
  /\ hook.inflight = 0
  /\ hook' = [hook EXCEPT !.k = @ + 1, !.inflight = @ + 1,
                          !.calls = Append(@, [row |-> hook.k + 1,
                                               fromWebhook |-> hook.route = "webhook",
                                               userId |-> IF hook.route = "webhook"
                                                            THEN "null" ELSE "u1"])]
  /\ UNCHANGED hookFrame

\* a variant that goes on with the next row after a failed one
RowSettle_continue ==
  /\ hook.pc = "rows"
  /\ hook.inflight = 1
  /\ \/ hook' = [hook EXCEPT !.inflight = 0,
                             !.files = @ \cup {hook.k},
                             !.jobs = Append(@, hook.k),
                             !.listed = Append(@, hook.k)]
     \/ \E written \in BOOLEAN :
          hook' = [hook EXCEPT !.inflight = 0,
                               !.files = IF written THEN @ \cup {hook.k} ELSE @]
  /\ UNCHANGED hookFrame

\* the awaited mergeTemplate call returns a job, or throws: a template parse
\* error is answered 422, anything else 400; the file of a failed attempt may
\* have been written
RowSettle ==
  /\ hook.pc = "rows"
  /\ hook.inflight = 1
  /\ \/ hook' = [hook EXCEPT !.inflight = 0,
                             !.files = @ \cup {hook.k},
                             !.jobs = Append(@, hook.k),
                             !.listed = Append(@, hook.k)]
     \/ \E status \in {422, 400}, written \in BOOLEAN :
          hook' = [hook EXCEPT !.inflight = 0, !.pc = "answered", !.status = status,
                               !.files = IF written THEN @ \cup {hook.k} ELSE @,
                               !.listed = << >>]
  /\ UNCHANGED hookFrame

\* res.json({ count: rows.length, jobs })
RowsDone ==
  /\ hook.pc = "rows"
  /\ hook.k = hook.n
  /\ hook.inflight = 0
  /\ hook' = [hook EXCEPT !.pc = "answered", !.status = 200]
  /\ UNCHANGED hookFrame

SpecHook ==
  Init /\ [][
       \/ HookRequest
       \/ VerifyHmac
       \/ HookParse
       \/ CsvRequest
       \/ RowStart
       \/ RowSettle
       \/ RowsDone
  ]_vars

-----------------------------------------------------------------------------
(* POST /upload as a whole: type detection, allow-list, linters, the object  *)
(* store, the Template record; then mergeTemplate detecting the type of the  *)
(* stored template and loading its bytes                                     *)

\* what an upload and the later load leave alone
upFrame == << mergeVars, lint, san, conv, proc, pdf, res, applied, race, store, audit, hook >>

\* FileType.fromBuffer(file.buffer): the type told from the magic bytes; text
\* has none, and neither has a file cut off after its zip signature
fromBuffer(content) ==
  CASE content = "docx" -> [ext |-> "docx", mime |-> Mime.docx]
    [] content = "zip" -> [ext |-> "zip", mime |-> "application/zip"]
    [] content = "png" -> [ext |-> "png", mime |-> "image/png"]
    [] OTHER -> NoFileType

\* path.extname(file.originalname).toLowerCase()
extname(name) ==
  LET b == basename(name)
      k == lastIndexOf(b, ".", Len(b))
  IN IF k <= 1 THEN << >> ELSE toLowerCase(SubSeq(b, k, Len(b)))

\* a variant whose fallback trusts the extension alone
detectFileType_byName(file) ==
  LET ext == extname(file.originalname)
  IN IF ext = << ".", "d", "o", "c", "x" >> THEN [ext |-> "docx", mime |-> Mime.docx]
     ELSE IF ext \in { << ".", "h", "t", "m", "l" >>, << ".", "h", "t", "m" >> }
       THEN [ext |-> IF Len(ext) = 5 THEN "html" ELSE "htm", mime |-> Mime.html]
     ELSE fromBuffer(file.content)

\* let fileType = await FileType.fromBuffer(...); if (!fileType) { fallback by
\* extension, with the zip signature for .docx }
detectFileType(file) ==
  LET ext == extname(file.originalname)
      isZip == file.content \in {"docx", "zip", "pk"}
  IN IF fromBuffer(file.content) # NoFileType THEN fromBuffer(file.content)
     ELSE IF ext = << ".", "d", "o", "c", "x" >>
       THEN (IF isZip THEN [ext |-> "docx", mime |-> Mime.docx] ELSE NoFileType)
     ELSE IF ext \in { << ".", "h", "t", "m", "l" >>, << ".", "h", "t", "m" >> }
       THEN [ext |-> IF Len(ext) = 5 THEN "html" ELSE "htm", mime |-> Mime.html]
     ELSE NoFileType

\* `${Date.now()}-${sanitize(file.originalname)}`
stamped(originalname) == << "0", "-" >> \o replaceDisallowed(basename(originalname), FALSE)

\* POST /upload with a file that multer accepted: the client declared one of
\* the two template MIME types; name and bytes are whatever the client sent
UpRequest ==
  /\ up.pc = "idle"
  /\ \E originalname \in { << "a", ".", "d", "o", "c", "x" >>, << "a", ".", "D", "O", "C", "X" >>,
                           << "a", ".", "h", "t", "m", "l" >>, << "a", ".", "h", "t", "m" >>,
                           << "a" >>, << "a", ".", "d", "o", "c" >>,
                           << "a", "$", ".", "h", "t", "m", "l" >> },
        content \in {"docx", "zip", "png", "pk", "html", "text"} :
       up' = [NoUp EXCEPT !.pc = "check",
                          !.file = [originalname |-> originalname, content |-> content]]
  /\ UNCHANGED upFrame

\* type detection, allow-list, lintHtmlBuffer, lintDocxBuffer: 415, 422, 500
\* when a linter throws, or on to the saving
UpCheck ==
  /\ up.pc = "check"
  /\ LET fileType == detectFileType(up.file)
         answer(status, linted, warned) ==
           [up EXCEPT !.pc = "answered", !.status = status, !.fileType = fileType,
                      !.linted = linted, !.warned = warned, !.errors = (status = 422)]
     IN IF fileType = NoFileType \/ fileType.mime \notin {Mime.docx, Mime.html}
          THEN up' = answer(415, "none", FALSE)
        ELSE IF fileType.ext = "html" \/ fileType.mime = Mime.html
          THEN \/ up' = answer(500, "html", FALSE)
               \/ \E errors, warnings \in BOOLEAN :
                    up' = IF errors THEN answer(422, "html", warnings)
                          ELSE [up EXCEPT !.pc = "put", !.fileType = fileType,
                                          !.linted = "html", !.warned = warnings]
        ELSE \E diagnostics \in (IF up.file.content = "docx" THEN BOOLEAN ELSE {TRUE}) :
               up' = IF diagnostics THEN answer(422, "docx", FALSE)
                     ELSE [up EXCEPT !.pc = "put", !.fileType = fileType, !.linted = "docx"]
  /\ UNCHANGED upFrame

\* await s3.send(new PutObjectCommand({ Key: withPrefix(`uploads/${stamped}`), ... }))
UpPut ==
  /\ up.pc = "put"
  /\ \/ up' = [up EXCEPT !.pc = "store",
                         !.s3 = @ \cup {<< stamped(up.file.originalname), up.file.content >>}]
     \/ up' = [up EXCEPT !.pc = "answered", !.status = 500]
  /\ UNCHANGED upFrame

\* extractTextFromBuffer, extractPlaceholders, storeTemplateAndFields(stamped,
\* placeholders), res.status(200); any rejection is answered 500
UpStore ==
  /\ up.pc = "store"
  /\ \/ up' = [up EXCEPT !.pc = "answered", !.status = 200,
                         !.templates = Append(@, [id |-> Len(@) + 1,
                                                  name |-> stamped(up.file.originalname)])]
     \/ up' = [up EXCEPT !.pc = "answered", !.status = 500]
  /\ UNCHANGED upFrame

\* mergeTemplate on the uploaded template with a complete payload, up to
\* loadTemplateBuffer: fs.readFile(path.join(UPLOADS_DIR, template.name))
UpLoad ==
  /\ up.pc = "answered"
  /\ up.status = 200
  /\ LET name == up.templates[Len(up.templates)].name
         mergeType == IF isDocxName(name) THEN "docx"
                      ELSE IF isHtmlName(name) THEN "html" ELSE "unsupported"
         found == { f \in up.uploads : f[1] = name }
     IN up' = [up EXCEPT !.pc = "merged", !.mergeType = mergeType,
                         !.buf = IF mergeType = "unsupported" THEN "none"
                                 ELSE IF found = {} THEN "ENOENT"
                                 ELSE (CHOOSE f \in found : TRUE)[2]]
  /\ UNCHANGED upFrame

SpecIngest == Init /\ [][UpRequest \/ UpCheck \/ UpPut \/ UpStore \/ UpLoad]_vars

-----------------------------------------------------------------------------
(* lintDocxBuffer: one call per behaviour, on any stored buffer and any      *)
(* behaviour of the engine                                                   *)

\* what a lintDocxBuffer call leaves alone
lintFrame == << mergeVars, san, conv, proc, pdf, res, applied, race, store, audit, hook, up >>

\* lintDocxBuffer(buffer) is called
LintCall ==
  /\ lint.pc = "idle"
  /\ \E b \in { Bytes(IF isDocxName(TemplateTable[t].name) THEN "docx" ELSE "html", "uploads", t, FALSE) : t \in TemplateIds }, engine \in EngineBehaviours :
       lint' = [pc |-> "try", buffer |-> b, engine |-> engine]
  /\ UNCHANGED lintFrame

\* the try block: renderInternal(buffer, {}, { allowNulls: true })
LintTry ==
  /\ lint.pc = "try"
  /\ lint' = [pc |-> "rendered", buffer |-> lint.buffer, engine |-> lint.engine,
              raised |-> EngineRaises(lint.buffer, Obj(<< >>), TRUE, lint.engine),
              r |-> lintRender(lint.buffer, lint.engine)]
  /\ UNCHANGED lintFrame

\* return [] / the catch block returns
LintReturn ==
  /\ lint.pc = "rendered"
  /\ lint' = [pc |-> "returned", buffer |-> lint.buffer, engine |-> lint.engine,
              raised |-> lint.raised,
              out |-> lintDocxBuffer(lint.buffer, lint.engine)]
  /\ UNCHANGED lintFrame

SpecLint ==
  Init /\ [][
       \/ LintCall
       \/ LintTry
       \/ LintReturn
  ]_vars

-----------------------------------------------------------------------------
(* Vocabulary of the properties *)

Did(name) == \E i \in 1..Len(steps) : steps[i].step = name
Succeeded(name) == \E i \in 1..Len(steps) : steps[i].step = name /\ steps[i].ok
AllStepsOk == \A i \in 1..Len(steps) : steps[i].ok
StepNames == [i \in 1..Len(steps) |-> steps[i].step]

TemplateFound == template # NoTemplate

\* the stored name ends (case-insensitively) in the given extension
NameHasExt(ext) ==
  /\ Len(template.name) >= Len(ext)
  /\ \A i \in 1..Len(ext) :
       Lower(template.name[Len(template.name) - Len(ext) + i]) = ext[i]

DocxTemplate == TemplateFound /\ NameHasExt(<<".", "d", "o", "c", "x">>)
HtmlTemplate ==
  /\ TemplateFound
  /\ \/ NameHasExt(<<".", "h", "t", "m", "l">>)
     \/ NameHasExt(<<".", "h", "t", "m">>)

\* declared field names of the template that are not leaf dot-paths of the payload
AbsentFields == Range(template.fields) \ Range(flattenKeys(req.data))

\* all enumerations of a finite set as a sequence without repetition
Enumerations(S) ==
  { q \in [1..Cardinality(S) -> S] : \A x \in S : \E i \in DOMAIN q : q[i] = x }

Converters ==
  {"convertDocxToPdfBuffer", "convertHtmlToPdfBuffer", "convertHtmlToDocxBuffer"}
ConvertersInvoked == SelectSeq(invoked, LAMBDA n : n \in Converters)
Sanitized == \E i \in 1..Len(invoked) : invoked[i] = "sanitizeHtmlBuffer"

Written(path) == \E f \in files : f[1] = path

-----------------------------------------------------------------------------
(* Properties *)

\* C1: the output file is written only after validation, rendering and any
\* sanitization and conversion have succeeded, a MergeJob row is created only
\* after the write succeeded, and every MergeJob row has its file written at
\* the recorded filePath.
C1_NoPartialWrites ==
  /\ (Did("Write") \/ files # {}) =>
       /\ Succeeded("Validate") /\ Succeeded("Render")
       /\ (HtmlTemplate /\ req.fromWebhook) => Succeeded("Sanitize")
       /\ (\/ DocxTemplate /\ req.outputType # "docx"
           \/ HtmlTemplate /\ req.outputType # "html") => Succeeded("Convert")
       /\ \A i, j \in 1..Len(steps) : (steps[j].step = "Write" /\ i < j) => steps[i].ok
  /\ (Did("CreateJob") \/ jobs # << >>) => Succeeded("Write")
  /\ \A i \in 1..Len(jobs) : Written(jobs[i].filePath)

C1_Witness ==
  /\ pc = "Done"
  /\ Len(jobs) = 1
  /\ Succeeded("Sanitize") /\ Succeeded("Convert")
  /\ Written(jobs[1].filePath)

\* C2: once a template is found, the attempt fails with the 422 'Missing
\* required fields' error iff some declared field is absent from the flattened
\* leaf dot-paths of the payload; the message names exactly the absent fields.
C2_MissingRequired ==
  /\ Did("Validate") => (err.oid = "missing" <=> AbsentFields # {})
  /\ ~Did("Validate") => err.oid # "missing"
  /\ err.oid = "missing" =>
       /\ pc = "Failed"
       /\ err.status = "422"
       /\ \E m \in Enumerations(AbsentFields) :
            err.message = "Missing required fields: " \o join(m, " ,")
  /\ (Did("Validate") /\ template.fields = << >>) => err.oid # "missing"

C2_Witness ==
  /\ pc = "Failed"
  /\ err.oid = "missing"
  /\ Cardinality(AbsentFields) = 2
  /\ "name" \in AbsentFields

\* C3: when a declared field is missing the attempt stops at validation: no
\* renderer, sanitizer or converter is invoked, nothing is written and no job
\* row is created.
C3_ShortCircuit ==
  (TemplateFound /\ AbsentFields # {}) =>
    /\ invoked = << >>
    /\ files = {}
    /\ jobs = << >>
    /\ ~Did("TypeDetect") /\ ~Did("LoadTemplate") /\ ~Did("Render")
    /\ ~Did("Write") /\ ~Did("CreateJob")
    /\ pc \in {"Validate", "Failed"}
    /\ pc = "Failed" => err.oid = "missing"

C3_Witness ==
  /\ pc = "Failed"
  /\ steps[Len(steps)] = Step("Validate", FALSE)
  /\ AbsentFields = {"client.name"}
  /\ invoked = << >> /\ files = {} /\ jobs = << >>

\* C4: the sanitizer is applied iff the template is an HTML template and the
\* caller is flagged untrusted (fromWebhook).
C4_SanitizeIffUntrustedHtml ==
  /\ Sanitized => (HtmlTemplate /\ req.fromWebhook)
  /\ (HtmlTemplate /\ req.fromWebhook /\ Succeeded("Render") /\ pc # "Sanitize")
       => (Sanitized /\ finalHtml = sanitizeHtmlBuffer(merged))
  /\ (HtmlTemplate /\ ~req.fromWebhook /\ Succeeded("Render") /\ pc # "Sanitize")
       => finalHtml = merged
  /\ \A f \in files : f[2].sanitized <=> (HtmlTemplate /\ req.fromWebhook)

C4_Witness ==
  /\ pc = "Done"
  /\ HtmlTemplate /\ req.fromWebhook
  /\ Sanitized
  /\ \E f \in files : f[2].sanitized

\* the output types the claim lists for each template type
LegalOutput ==
  \/ DocxTemplate /\ req.outputType \in {"docx", "pdf"}
  \/ HtmlTemplate /\ req.outputType \in {"docx", "html", "pdf"}

\* C5: a DOCX template accepts exactly {docx, pdf}, an HTML template exactly
\* {docx, html, pdf}; for every other pair the attempt fails, writes no file and
\* creates no job row.
C5_OutputTypeLegality ==
  /\ (Succeeded("TypeDetect") /\ ~LegalOutput) =>
       /\ files = {} /\ jobs = << >>
       /\ pc \notin {"Write", "CreateJob", "Done"}
       /\ Did("Convert") => (pc = "Failed" /\ err.oid = "outputType")
  /\ err.oid = "outputType" => ~LegalOutput
  /\ pc \in {"Write", "CreateJob", "Done"} => LegalOutput

C5_Witness ==
  /\ pc = "Failed"
  /\ err.oid = "outputType"
  /\ HtmlTemplate
  /\ Succeeded("Render")
  /\ files = {} /\ jobs = << >>

\* C6: every legal (template type, outputType) pair takes exactly one
\* conversion path: docx->docx and html->html call no converter and write the
\* rendered (html: possibly sanitized) bytes unchanged, docx->pdf calls only the
\* LibreOffice library, html->pdf only the headless browser, html->docx only
\* the soffice pipeline; the written file has the requested extension.
C6_OneConversionPath ==
  /\ Len(ConvertersInvoked) <= 1
  /\ pc \in {"Write", "CreateJob", "Done"} =>
       /\ filePath.ext = req.outputType
       /\ filePath.dir = "outputs"
       /\ DocxTemplate /\ req.outputType = "docx" =>
            ConvertersInvoked = << >> /\ outBuffer = merged
              /\ outBuffer.via = "docxtemplater"
       /\ HtmlTemplate /\ req.outputType = "html" =>
            ConvertersInvoked = << >> /\ outBuffer = finalHtml
              /\ outBuffer.via = "mustache"
       /\ DocxTemplate /\ req.outputType = "pdf" =>
            ConvertersInvoked = << "convertDocxToPdfBuffer" >>
              /\ outBuffer.via = "libreoffice-convert"
       /\ HtmlTemplate /\ req.outputType = "pdf" =>
            ConvertersInvoked = << "convertHtmlToPdfBuffer" >>
              /\ outBuffer.via = "puppeteer"
       /\ HtmlTemplate /\ req.outputType = "docx" =>
            ConvertersInvoked = << "convertHtmlToDocxBuffer" >>
              /\ outBuffer.via = "soffice"
       /\ outBuffer.fmt = req.outputType
  /\ \A f \in files : f[1].ext = req.outputType /\ f[2] = outBuffer

C6_Witness ==
  /\ pc = "Done"
  /\ HtmlTemplate /\ req.outputType = "docx"
  /\ ConvertersInvoked = << "convertHtmlToDocxBuffer" >>
  /\ \E f \in files : f[1].ext = "docx" /\ f[2].via = "soffice"

\* C7 (state part): at most one MergeJob row per attempt, created after the
\* write, with status 'succeeded', the template's id, the requested outputType
\* and the path just written; the caller gets that row's id and that path.
C7_JobRow ==
  /\ Len(jobs) <= 1
  /\ jobs # << >> =>
       /\ Succeeded("Write")
       /\ jobs[1].status = "succeeded"
       /\ jobs[1].templateId = template.id
       /\ TemplateFound
       /\ jobs[1].outputType = req.outputType
       /\ jobs[1].filePath = filePath
       /\ << filePath, outBuffer >> \in files
       /\ pc = "Done"
  /\ pc = "Done" =>
       /\ Len(jobs) = 1
       /\ result = [jobId |-> jobs[1].id, filePath |-> jobs[1].filePath]

\* C7: each attempt creates at most one MergeJob row, after the write
\* succeeded, and never updates it; the row has status 'succeeded', the
\* template's id, the requested outputType and the written path, and the
\* caller gets the row's id and that path.
C7_OneJobPerAttempt ==
  /\ []C7_JobRow
  /\ [][\A i \in 1..Len(jobs) : Len(jobs') >= i /\ jobs'[i] = jobs[i]]_vars

C7_Witness ==
  /\ pc = "Done"
  /\ Len(jobs) = 1
  /\ jobs[1].userId = "u1"
  /\ result.jobId = 1

StepOrder ==
  << "EnsureDirs", "FindTemplate", "Validate", "TypeDetect", "LoadTemplate",
     "Render", "Sanitize", "Convert", "Write", "CreateJob" >>

Rank(name) == CHOOSE i \in 1..Len(StepOrder) : StepOrder[i] = name

\* the steps executed so far follow the given order, each at most once, and
\* nothing follows a failed step
FollowsOrder(rank(_)) ==
  /\ \A i, j \in 1..Len(steps) : i < j => rank(steps[i].step) < rank(steps[j].step)
  /\ \A i \in 1..Len(steps) : i < Len(steps) => steps[i].ok

\* C8 as stated: type detection precedes validation, so a template whose name
\* ends in neither .docx nor .htm/.html fails with the unsupported-type failure
\* for every payload.
C8_TypeDetectFirst ==
  (TemplateFound /\ ~DocxTemplate /\ ~HtmlTemplate /\ pc = "Failed")
    => err.oid = "unsupported"

\* C8 amended: the steps run in the order Validate, TypeDetect, Render,
\* Sanitize, Convert, Persist; validation precedes type detection, so a template
\* with an unsupported name fails with the unsupported-type failure for every
\* payload that supplies all declared fields and with the missing-fields
\* failure for a payload that omits one.
C8_ValidateFirst ==
  /\ FollowsOrder(Rank)
  /\ (TemplateFound /\ ~DocxTemplate /\ ~HtmlTemplate /\ pc = "Failed") =>
       IF AbsentFields = {} THEN err.oid = "unsupported" /\ ~Did("LoadTemplate")
       ELSE err.oid = "missing" /\ ~Did("TypeDetect")
  /\ err.oid = "unsupported" => (TemplateFound /\ ~DocxTemplate /\ ~HtmlTemplate)

C8_Witness ==
  /\ pc = "Failed"
  /\ err.oid = "unsupported"
  /\ StepNames = << "EnsureDirs", "FindTemplate", "Validate", "TypeDetect" >>
  /\ req.data # Null

\* the engine error has the shape the renderer recognizes
Recognizable(e) ==
  /\ e.props.present
  /\ \/ e.props.errors.kind # "undefined"
     \/ e.props.id \notin {Undefined, ""}

\* the errors a recognizable engine error stands for
ErrorsOf(e) == IF e.props.errors.kind = "array" THEN e.props.errors.items ELSE << e >>

FieldOf(er, f) == IF er.props.present THEN er.props[f] ELSE Undefined

\* C9: an engine error of the recognizable shape (single, or a batch of n
\* sub-errors) becomes a TemplateParseError whose details hold one entry
\* {id, explanation, xtag, file, offset} per error; any other exception
\* propagates as the very same error object.
C9_ErrorNormalization ==
  (DocxTemplate /\ Did("Render")) =>
    /\ thrown = NoError <=> Succeeded("Render")
    /\ (thrown # NoError /\ Recognizable(thrown)) =>
         /\ err.class = "TemplateParseError"
         /\ err.message = "TEMPLATE_PARSE_ERROR"
         /\ err.cause = thrown.oid
         /\ err.details.present
         /\ Len(err.details.list) = Len(ErrorsOf(thrown))
         /\ \A i \in 1..Len(err.details.list) :
              /\ DOMAIN err.details.list[i] =
                   {"id", "explanation", "xtag", "file", "offset"}
              /\ \A f \in DOMAIN err.details.list[i] :
                   err.details.list[i][f] = FieldOf(ErrorsOf(thrown)[i], f)
    /\ (thrown # NoError /\ ~Recognizable(thrown)) => err = thrown

\* C10: in strict mode a tag that resolves to null/undefined makes the merge
\* fail with a TemplateParseError (status 422) whose diagnostics hold exactly
\* one entry identifying the unresolved tag.
C10_StrictUnresolvedTag ==
  thrown.oid = "nullGetter" =>
    /\ pc = "Failed"
    /\ err.class = "TemplateParseError"
    /\ err.status = "422"
    /\ Len(err.details.list) = 1
    /\ err.details.list[1].id = "undefined_tag"

\* C11: lintDocxBuffer always returns: the empty list when the engine raises
\* nothing of its own (a placeholder without data is not reported), the
\* normalized details when the render raised a recognizable engine error, and
\* a single unknown_error diagnostic carrying the message for anything else.
C11_LintNeverThrows ==
  /\ lint.pc \in {"idle", "try", "rendered", "returned"}
  /\ lint.pc = "returned" =>
       LET e == lint.raised
           engine == lint.engine
       IN /\ (engine.zipOk /\ engine.ctorThrows = NoError /\ ~engine.shouldThrow)
               => lint.out = << >>
          /\ lint.out = << >> => (e = NoError \/ e.props.present)
          /\ (engine.zipOk /\ engine.ctorThrows = NoError /\ engine.shouldThrow
                /\ Recognizable(engine.throwShape)) =>
               /\ Len(lint.out) = Len(ErrorsOf(e))
               /\ \A i \in 1..Len(lint.out) :
                    /\ DOMAIN lint.out[i] = {"id", "explanation", "xtag", "file", "offset"}
                    /\ \A f \in DOMAIN lint.out[i] :
                         lint.out[i][f] = FieldOf(ErrorsOf(e)[i], f)
          /\ (e # NoError /\ ~(engine.zipOk /\ engine.ctorThrows = NoError
                                 /\ Recognizable(e))) =>
               lint.out = << [id |-> "unknown_error", explanation |-> e.message] >>

C11_Witness ==
  /\ lint.pc = "returned"
  /\ TemplateTable[lint.buffer.tpl].tags # << >>
  /\ lint.engine.zipOk /\ ~lint.engine.shouldThrow /\ lint.engine.ctorThrows = NoError
  /\ lint.out = << >>

\* the nodes of a tree in document order, each with its depth and without its
\* children
RECURSIVE Preorder(_, _)
Preorder(nodes, depth) ==
  IF nodes = << >> THEN << >>
  ELSE LET n == nodes[1]
       IN (IF n.kind = "text"
             THEN << [depth |-> depth, node |-> n] >>
             ELSE << [depth |-> depth, node |-> [n EXCEPT !.kids = << >>]] >>
                  \o Preorder(n.kids, depth + 1))
          \o Preorder(Tail(nodes), depth)

\* the elements of the document a markup parses to, at any depth
ElementsIn(markup) ==
  LET items == Preorder(<< JSDOM(markup) >>, 0)
  IN { items[i].node : i \in { j \in 1..Len(items) : items[j].node.kind = "element" } }

LowerName(name) == [i \in 1..Len(name) |-> Lower(name[i])]

OnPrefixed(name) ==
  Len(name) >= 2 /\ LowerName(name)[1] = "o" /\ LowerName(name)[2] = "n"

\* the value is a javascript: URL (leading white space tolerated, any case)
ScriptScheme(value) ==
  \E k \in 0..Len(value) :
    /\ \A i \in 1..k : value[i] \in { " ", "\t", "\n", "\r", "\f" }
    /\ Len(value) >= k + 11
    /\ LowerName(SubSeq(value, k + 1, k + 11)) = << "j", "a", "v", "a", "s", "c", "r", "i", "p", "t", ":" >>

DisallowedElement(el) ==
  \/ LowerName(el.tag) \in { << "s", "c", "r", "i", "p", "t" >>, << "i", "f", "r", "a", "m", "e" >>, << "o", "b", "j", "e", "c", "t" >>, << "e", "m", "b", "e", "d" >> }
  \/ /\ LowerName(el.tag) = << "l", "i", "n", "k" >>
     /\ \E i \in 1..Len(el.attrs) :
          LowerName(el.attrs[i].name) = << "r", "e", "l" >> /\ el.attrs[i].value = << "i", "m", "p", "o", "r", "t" >>

\* the attribute holds a URL the browser may navigate to or load: href and src
\* on any element, action on a form
UrlAttribute(el, attr) ==
  \/ LowerName(attr.name) \in { << "h", "r", "e", "f" >>, << "s", "r", "c" >> }
  \/ LowerName(el.tag) = << "f", "o", "r", "m" >> /\ LowerName(attr.name) = << "a", "c", "t", "i", "o", "n" >>

\* C12: the output of the sanitizer contains, at any depth, no element with a
\* disallowed tag (script, iframe, object, embed, link rel=import), no
\* attribute whose name starts with 'on', and no javascript: URL.
C12_SanitizerSafety ==
  san.pc \in {"sanitized", "twice"} =>
    \A el \in ElementsIn(san.out) :
      /\ ~DisallowedElement(el)
      /\ \A i \in 1..Len(el.attrs) :
           /\ ~OnPrefixed(el.attrs[i].name)
           /\ ~(UrlAttribute(el, el.attrs[i]) /\ ScriptScheme(el.attrs[i].value))

RemovableAttr(attr) ==
  \/ OnPrefixed(attr.name)
  \/ LowerName(attr.name) \in { << "h", "r", "e", "f" >>, << "s", "r", "c" >> } /\ ScriptScheme(attr.value)

\* what is to remain of a tree: the nodes outside every disallowed element,
\* in document order with their depth, each without its removable attributes
RECURSIVE Remaining(_, _)
Remaining(nodes, depth) ==
  IF nodes = << >> THEN << >>
  ELSE LET n == nodes[1]
       IN (IF n.kind = "text" THEN << [depth |-> depth, node |-> n] >>
           ELSE IF DisallowedElement(n) THEN << >>
           ELSE << [depth |-> depth,
                    node |-> [n EXCEPT !.kids = << >>,
                                       !.attrs = SelectSeq(n.attrs,
                                                   LAMBDA a : ~RemovableAttr(a))]] >>
                \o Remaining(n.kids, depth + 1))
          \o Remaining(Tail(nodes), depth)

C15_TempDirCleanup ==
  (conv.pc = "settled" /\ conv.tmpDir # "none") => conv.rmAttempted

\* sub occurs in str as a contiguous run of characters
Contains(str, sub) ==
  \E k \in 0..(Len(str) - Len(sub)) : SubSeq(str, k + 1, k + Len(sub)) = sub

\* str without its leading and trailing white space
Trimmed(str) ==
  LET ws == { " ", "\t", "\n", "\r", "\f" }
      keep == { i \in 1..Len(str) : str[i] \notin ws }
  IN IF keep = {} THEN << >>
     ELSE SubSeq(str, CHOOSE i \in keep : \A j \in keep : i <= j,
                      CHOOSE i \in keep : \A j \in keep : i >= j)

C18_SpawnFailureDistinct ==
  proc.errored =>
    /\ proc.promise = Rejected(SpawnError)
    /\ proc.stage = "odt" => conv.stages = << "odt" >>
    /\ conv.promise.state # "resolved"
    /\ conv.pc = "settled" => (conv.promise = Rejected(SpawnError) /\ conv.rmAttempted)
    /\ conv.pc \notin {"access", "stage2", "read"}

C18_Witness ==
  /\ proc.errored /\ proc.closed
  /\ proc.stage = "odt"
  /\ proc.code = "1"
  /\ conv.pc = "settled"
  /\ conv.promise = Rejected(SpawnError)

AnsweredFailure == pc = "Failed" /\ res # NoRes

\* C19: whenever mergeTemplate fails with the missing-required-fields error,
\* the manual-merge, CSV-merge and webhook endpoints answer with status 422.
C19_MissingFields422 ==
  (AnsweredFailure /\ err.oid = "missing") => res.status = 422

\* C20: a failure with a TemplateParseError is answered with status 422 and the
\* error's details array on every endpoint; a failure that is neither the
\* validation failure nor a template-content failure is answered with a generic
\* error response whose body carries only the message text.
C20_TemplateFailure422 ==
  AnsweredFailure =>
    /\ err.class = "TemplateParseError" =>
         /\ res.status = 422
         /\ res.body = [error |-> "Template has invalid Docxtemplater tags",
                         details |-> err.details.list]
    /\ (err.oid # "missing" /\ err.class # "TemplateParseError" /\ err.oid # "nullGetter") =>
         /\ res.status = 400
         /\ res.body = [error |-> err.message]

C20_Witness ==
  /\ AnsweredFailure
  /\ res.route = "webhook"
  /\ err.class = "TemplateParseError"
  /\ Len(res.body.details) = 2
  /\ res.status = 422

\* the leaf paths of the payload that the template does not declare
ExtraFields == Range(flattenKeys(req.data)) \ Range(template.fields)

\* C21: when the payload supplies every declared field, undeclared leaf paths
\* never make the attempt fail at validation and are not reported: validation
\* succeeds, the result and the response carry only the job, and a completed
\* attempt has its succeeded job.
C21_ExtrasAdvisory ==
  (TemplateFound /\ AbsentFields = {} /\ ExtraFields # {}) =>
    /\ err.oid # "missing"
    /\ Did("Validate") => Succeeded("Validate")
    /\ pc = "Done" =>
         /\ DOMAIN result = {"jobId", "filePath"}
         /\ jobs # << >>
         /\ jobs[Len(jobs)].status = "succeeded"
         /\ res # NoRes =>
              /\ res.status = 200
              /\ res.body \in {result, [count |-> 1, jobs |-> << result >>]}

C21_Witness ==
  /\ pc = "Done"
  /\ TemplateFound /\ AbsentFields = {}
  /\ Cardinality(ExtraFields) = 2
  /\ jobs[1].status = "succeeded"
  /\ res.status = 200

\* the leaves of a payload, each as the sequence of keys that leads to it: a
\* value is a leaf unless it is a non-array object
RECURSIVE LeafPathsOf(_, _)
LeafPathsOf(v, path) ==
  IF v.t = "object"
    THEN UNION { LeafPathsOf(v.e[i][2], Append(path, v.e[i][1])) : i \in 1..Len(v.e) }
    ELSE IF path = << >> THEN {} ELSE { path }

\* the keys used anywhere in a payload
RECURSIVE KeysIn(_)
KeysIn(v) ==
  IF v.t = "object"
    THEN UNION { { v.e[i][1] } \cup KeysIn(v.e[i][2]) : i \in 1..Len(v.e) }
    ELSE {}

\* no key is empty or holds a dot
PlainKeys(v) == KeysIn(v) \cap {"", "a.b"} = {}

NoRepeats(q) == \A i, j \in 1..Len(q) : q[i] = q[j] => i = j

\* C22 as stated: for any nested mapping with any keys, every leaf dot-path
\* appears exactly once in the output of flattenKeys and nothing else appears;
\* a null or undefined payload flattens to the empty list.
C22_EachLeafPathOnce ==
  applied.fn = "flattenKeys" =>
    /\ Range(applied.out) = { join(q, ".") : q \in LeafPathsOf(applied.arg, << >>) }
    /\ NoRepeats(applied.out)
    /\ applied.arg.t \in {"null", "undefined"} => applied.out = << >>

\* C22 amended: flattenKeys returns one entry per leaf (scalars, null,
\* undefined and arrays are leaves, arrays are not descended into); when no key
\* is empty or holds a dot the entries are exactly the leaf dot-paths, each
\* once; a null or undefined payload flattens to the empty list.
C22_OneEntryPerLeaf ==
  applied.fn = "flattenKeys" =>
    /\ Len(applied.out) = Cardinality(LeafPathsOf(applied.arg, << >>))
    /\ PlainKeys(applied.arg) =>
         /\ Range(applied.out) = { join(q, ".") : q \in LeafPathsOf(applied.arg, << >>) }
         /\ NoRepeats(applied.out)
    /\ applied.arg.t \in {"null", "undefined"} => applied.out = << >>

C22_Witness ==
  /\ applied.fn = "flattenKeys"
  /\ applied.arg = Obj(<< <<"a", Obj(<< <<"b", Array>>, <<"a", Null>> >>)>>,
                          <<"b", Scalar("x")>> >>)
  /\ applied.out = << "a.b", "a.a", "b" >>

\* the attempts that have computed their output path
Stamped == { i \in 1..MaxAttempts : race.at[i].pc \in {"write", "job", "done"} }

\* C23: overlapping merges of the same template with the same output type
\* whose timestamps fall in the same millisecond compute the same output path;
\* every write replaces what is at its path, so a path holds one file however
\* many succeeded jobs refer to it, and each such job's path exists.
C23_PathCollision ==
  /\ \A i, j \in Stamped :
       (/\ race.at[i].templateId = race.at[j].templateId
        /\ race.at[i].outputType = race.at[j].outputType
        /\ race.at[i].filePath.time = race.at[j].filePath.time)
         => race.at[i].filePath = race.at[j].filePath
  /\ \A f, g \in race.files : f[1] = g[1] => f = g
  /\ \A k \in 1..Len(race.jobs) :
       /\ race.jobs[k].status = "succeeded"
       /\ \E f \in race.files : f[1] = race.jobs[k].filePath

C23_Witness ==
  /\ MaxAttempts >= 2
  /\ race.at[1].pc = "done" /\ race.at[2].pc = "done"
  /\ Len(race.jobs) = 2
  /\ race.jobs[1].filePath = race.jobs[2].filePath
  /\ race.jobs[1].attempt # race.jobs[2].attempt
  /\ race.files = { << race.jobs[1].filePath, [attempt |-> race.jobs[2].attempt] >> }

\* the characters a sanitized stem may hold: [A-Za-z0-9_.- ]
StemChars == {"a", ".", "-", " ", "_"}

\* the last n characters of q
Suffix(q, n) == SubSeq(q, Len(q) - n + 1, Len(q))

\* C24: for every stored template name, with directory components, separators,
\* '..' segments or characters outside [A-Za-z0-9_.- ], the write target is a
\* direct child of the outputs directory, named <sanitized stem>-<timestamp>.
\* <output extension>.
C24_PathConfinement ==
  applied.fn = "filePath" =>
    LET out == applied.out
        ending == << "-", ToString(applied.arg.now), "." >>
                    \o (CASE applied.arg.outputType = "docx" -> << "d", "o", "c", "x" >>
                          [] applied.arg.outputType = "pdf" -> << "p", "d", "f" >>
                          [] applied.arg.outputType = "html" -> << "h", "t", "m", "l" >>)
    IN /\ Len(out) = 2
       /\ out[1] = << "outputs" >>
       /\ Len(out[2]) >= Len(ending)
       /\ Suffix(out[2], Len(ending)) = ending
       /\ \A k \in 1..(Len(out[2]) - Len(ending)) : out[2][k] \in StemChars

C24_Witness ==
  /\ applied.fn = "filePath"
  /\ applied.arg.name = << ".", ".", "/", "$" >>
  /\ applied.arg.outputType = "pdf"
  /\ applied.out = << << "outputs" >>, << "_", "-", "0", ".", "p", "d", "f" >> >>

\* C25: for every pair of the conversion table an attempt either ends in a
\* classified failure or writes non-empty bytes of the requested format; the
\* file a succeeded job refers to is never empty.
C25_NonEmptyOutput ==
  /\ Succeeded("Write") =>
       \E f \in files : f[1] = filePath /\ f[2].fmt = req.outputType /\ ~f[2].empty
  /\ pc = "Failed" => err # NoError
  /\ \A k \in 1..Len(jobs) :
       \A f \in files : f[1] = jobs[k].filePath => ~f[2].empty

\* the placeholder names written in the occurrences of a text
NamesIn(matches) ==
  { c \in UNION { Range(matches[i]) : i \in 1..Len(matches) } :
      c \notin {"{{", "}}", " "} }

\* C26: after any sequence of uploads the Field names stored for each Template
\* are pairwise distinct: the names extracted from a text are its placeholder
\* names, trimmed, each once, so the store never rejects them as duplicates
C26_UniqueFieldNames ==
  /\ \A i \in 1..Len(store.templates) : NoRepeats(store.templates[i].fields)
  /\ store.last.outcome # "P2002"
  /\ store.last.outcome = "created" =>
       LET t == store.templates[Len(store.templates)]
       IN /\ Range(t.fields) = NamesIn(store.last.matches)
          /\ Len(t.fields) = Cardinality(NamesIn(store.last.matches))

\* two templates are stored, the second from a text that writes the same
\* placeholder with and without padding next to nothing else
C26_Witness ==
  /\ Len(store.templates) = 2
  /\ store.last.outcome = "created"
  /\ store.last.matches = << << "{{", "name", "}}" >>, << "{{", " ", "name", " ", "}}" >> >>
  /\ store.templates[2].fields = << "name" >>
  /\ store.templates[1].fields = << "client.name", "Name" >>

\* C27: once called, an attempt eventually is Done or Failed and stays there;
\* a step that fails puts the attempt in Failed at once, Failed is entered no
\* other way, nothing runs after a failed step and no step runs twice
C27_Terminates ==
  /\ (pc # "Start") ~> (pc \in {"Done", "Failed"})
  /\ [][(pc \in {"Done", "Failed"}) => (pc' = pc /\ steps' = steps)]_vars
  /\ [][steps' # steps =>
          /\ Len(steps') = Len(steps) + 1
          /\ SubSeq(steps', 1, Len(steps)) = steps
          /\ ((pc' = "Failed") = ~steps'[Len(steps')].ok) ]_vars
  /\ [](/\ NoRepeats(StepNames)
        /\ \A i \in 1..Len(steps) : i < Len(steps) => steps[i].ok
        /\ pc = "Failed" <=> (steps # << >> /\ ~steps[Len(steps)].ok)
        /\ pc = "Done" => AllStepsOk /\ Did("CreateJob"))

\* an attempt has failed in its conversion after seven steps that succeeded
C27_Witness ==
  /\ pc = "Failed"
  /\ Len(steps) = 8
  /\ steps[8] = Step("Convert", FALSE)
  /\ \A i \in 1..7 : steps[i].ok

\* position of the first call of `name` among the calls made, 0 if none
FirstCall(name) ==
  IF \E i \in 1..Len(invoked) : invoked[i] = name
  THEN CHOOSE i \in 1..Len(invoked) :
         invoked[i] = name /\ \A j \in 1..(i - 1) : invoked[j] # name
  ELSE 0

\* C28: for an untrusted caller and a markup template the sanitizer runs
\* before any converter, the PDF converter and the two-stage docx pipeline
\* receive the sanitizer's output, and the bytes written for html output are
\* the sanitizer's output; the unsanitized merged markup is none of these
C28_SanitizeBeforeConvert ==
  (HtmlTemplate /\ req.fromWebhook) =>
    LET clean == sanitizeHtmlBuffer(merged)
    IN /\ \A i \in 1..Len(invoked) :
            invoked[i] \in Converters =>
              /\ FirstCall("sanitizeHtmlBuffer") \in 1..(i - 1)
              /\ finalHtml = clean /\ finalHtml # merged
       /\ (Succeeded("Convert") /\ req.outputType = "pdf") =>
            /\ outBuffer = convertHtmlToPdfBuffer(clean)
            /\ outBuffer # convertHtmlToPdfBuffer(merged)
       /\ (Succeeded("Convert") /\ req.outputType = "docx") =>
            /\ outBuffer = convertHtmlToDocxBuffer(clean)
            /\ outBuffer # convertHtmlToDocxBuffer(merged)
       /\ (pc \in {"Write", "CreateJob", "Done"} /\ req.outputType = "html") =>
            outBuffer = clean /\ outBuffer # merged
       /\ \A f \in files :
            /\ f[2] = outBuffer
            /\ f[2].sanitized
            /\ f[2].fmt = "html" => f[2] = clean

\* an untrusted caller's markup template was converted to pdf from the
\* sanitizer's output and the result was written
C28_Witness ==
  /\ pc = "Done"
  /\ HtmlTemplate /\ req.fromWebhook /\ req.outputType = "pdf"
  /\ invoked = << "renderHtmlBuffer", "sanitizeHtmlBuffer", "convertHtmlToPdfBuffer" >>
  /\ outBuffer = convertHtmlToPdfBuffer(sanitizeHtmlBuffer(merged))
  /\ files = {<< filePath, outBuffer >>}

\* the finally block of convertHtmlToDocxBuffer has run and the call is over
CleanedUp == conv.pc = "settled" /\ conv.rmAttempted

\* C29: whether or not the working directory could be removed, a call whose
\* pipeline read the docx back returns exactly those bytes, and a call whose
\* pipeline failed fails with that error, never with an error of the removal
C29_CleanupNeverMasks ==
  CleanedUp =>
    /\ (conv.value # NoBytes) # (conv.failure # NoFailure)
    /\ conv.value # NoBytes =>
         /\ conv.promise = Resolved(conv.value)
         /\ conv.value = convertHtmlToDocxBuffer(conv.htmlBuffer)
    /\ conv.failure # NoFailure =>
         /\ conv.promise = Rejected(conv.failure)
         /\ conv.failure # FsError("rm")

\* the docx was read back, the removal of the working directory failed and
\* the call returned the bytes
C29_Witness ==
  /\ CleanedUp
  /\ conv.tmpDir = "exists"
  /\ conv.stages = << "odt", "docx" >>
  /\ conv.promise = Resolved(convertHtmlToDocxBuffer(conv.htmlBuffer))

\* C30: the second soffice run is started only from a first run that exited
\* with code 0 and after the .odt file was found; once the call has failed no
\* further run is started and nothing is read back, so a call that fails in or
\* right after its first run ends rejected with one run and no bytes
C30_StagedPipeline ==
  /\ [][(conv'.stages # conv.stages) =>
          \/ conv.stages = << >> /\ conv'.stages = << "odt" >>
          \/ /\ conv.stages = << "odt" >> /\ conv'.stages = << "odt", "docx" >>
             /\ proc.stage = "odt" /\ proc.closed /\ proc.code = "0"
             /\ proc.promise.state = "resolved"
             /\ conv.midOdt
             /\ conv.failure = NoFailure ]_vars
  /\ [][(conv.failure # NoFailure) =>
          /\ conv'.stages = conv.stages
          /\ conv'.value = NoBytes
          /\ conv'.failure = conv.failure
          /\ conv'.pc \in {"finally", "settled"} ]_vars
  /\ []((conv.pc \in {"stage2", "await2", "read"} \/ conv.value # NoBytes) =>
          (conv.midOdt /\ conv.failure = NoFailure))
  /\ []((conv.pc = "settled" /\ conv.stages = << "odt" >>) =>
          (conv.promise.state = "rejected" /\ conv.value = NoBytes))

\* the first run exited with code 0 without leaving the .odt file: the call
\* failed on the access check after one run
C30_Witness ==
  /\ conv.pc = "settled"
  /\ conv.stages = << "odt" >>
  /\ proc.stage = "odt" /\ proc.code = "0" /\ proc.promise.state = "resolved"
  /\ ~conv.midOdt
  /\ conv.promise = Rejected(FsError("access"))
  /\ conv.value = NoBytes

\* C31: an audit event is logged exactly when the caller is untrusted and the
\* sanitized bytes differ from the merged bytes
C31_AuditWhenAltered ==
  audit.pc = "audited" =>
    (audit.warned <=>
       (audit.fromWebhook /\ toBytes(audit.finalHtml) # toBytes(audit.mergedHtml)))

\* the paths that job rows refer to
JobPaths == { jobs[i].filePath : i \in 1..Len(jobs) }

\* C34: when storing the job fails after the output file was written, the
\* attempt is Failed with the error of the store, there is no job row, and the
\* written file is still there: the output files exceed those of the job rows
C34_OrphanOutput ==
  (steps # << >> /\ steps[Len(steps)] = Step("CreateJob", FALSE)) =>
    /\ pc = "Failed"
    /\ err = PlainError("db", "database unavailable")
    /\ jobs = << >>
    /\ result.jobId = 0
    /\ Succeeded("Write")
    /\ files = {<< filePath, outBuffer >>}
    /\ JobPaths # { f[1] : f \in files }
    /\ JobPaths \subseteq { f[1] : f \in files }

\* a docx template merged to pdf: the file was written, the job was not stored
C34_Witness ==
  /\ pc = "Failed"
  /\ steps[Len(steps)] = Step("CreateJob", FALSE)
  /\ DocxTemplate /\ req.outputType = "pdf"
  /\ Written(filePath)
  /\ jobs = << >>

\* q continues p
Extends(q, p) == Len(q) >= Len(p) /\ SubSeq(q, 1, Len(p)) = p

\* C39: the promise of runSoffice is settled at most once, by whichever of
\* 'error' and 'close' is handled first; each stream's chunks are appended in
\* arrival order, and what 'close' reports holds all chunks received before it
C39_SettlesOnce ==
  /\ [][(proc.promise.state # "pending" /\ proc'.stage = proc.stage) =>
          proc'.promise = proc.promise]_vars
  /\ [][(proc'.stage = proc.stage) =>
          /\ Extends(proc'.stdout, proc.stdout)
          /\ Extends(proc'.stderr, proc.stderr)
          /\ (proc.closed \/ proc.errored) =>
               (proc'.stdout = proc.stdout /\ proc'.stderr = proc.stderr)]_vars
  /\ [](/\ proc.promise.state # "pending" <=> (proc.closed \/ proc.errored)
        /\ proc.errored => proc.promise = Rejected(SpawnError)
        /\ (proc.closed /\ ~proc.errored) =>
             proc.promise = onClose(proc.code, proc.stdout, proc.stderr)
        /\ proc.promise.state = "resolved" =>
             proc.promise.value = [stdout |-> proc.stdout, stderr |-> proc.stderr]
        /\ (proc.promise.state = "rejected" /\ ~proc.errored) =>
             /\ proc.promise.error.stdout = proc.stdout
             /\ proc.promise.error.stderr = proc.stderr)

\* 'error' was handled first and a 'close' with code 0 followed: the promise
\* stays rejected with the spawn error
C39_Witness ==
  /\ proc.errored /\ proc.closed
  /\ proc.code = "0"
  /\ proc.promise = Rejected(SpawnError)

\* C37: for a docx template whose tags are exactly its declared fields, a
\* payload that passed the missing-required check is rendered in strict mode
\* without an unresolved-placeholder failure
C37_ValidatedRenders ==
  (/\ DocxTemplate
   /\ Range(template.tags) = Range(template.fields)
   /\ Succeeded("Validate")
   /\ Did("Render")) => thrown.oid # "nullGetter"

\* the header, trimmed, is exactly the hex digest of the raw body
GoodSignature == trim(hook.header) = createHmac(hook.raw)

\* C33: on the webhook route the body is parsed and mergeTemplate is called
\* only for a request whose x-signature is the digest of the raw body; a
\* missing, malformed, too short, too long or different signature is answered
\* 401 with no parse, no merge, no file and no job; every merge runs untrusted
\* and without a user
C33_VerifyThenParse ==
  hook.route = "webhook" =>
    /\ (hook.pc # "verify" /\ ~GoodSignature) =>
         /\ hook.status = 401
         /\ ~hook.parsed
         /\ hook.calls = << >> /\ hook.files = {} /\ hook.jobs = << >>
    /\ \A i \in 1..Len(hook.calls) :
         hook.calls[i].fromWebhook /\ hook.calls[i].userId = "null"

\* the rows 1..m in input order
FirstRows(m) == [i \in 1..m |-> i]

\* a mergeTemplate call made for a row has failed and the request was answered
RowFailed == hook.pc = "answered" /\ hook.status \in {400, 422} /\ hook.calls # << >>

\* C35: on the CSV and webhook routes the rows are merged one at a time in
\* input order; when the attempt for row k fails no later row is attempted,
\* the request is answered with an error that lists no job, and the files and
\* jobs of rows 1..k-1 are still there; nothing happens after the answer
C35_SequentialRows ==
  /\ [](/\ hook.inflight \in {0, 1}
        /\ Len(hook.calls) = hook.k
        /\ \A i \in 1..Len(hook.calls) : hook.calls[i].row = i
        /\ hook.pc = "rows" => hook.jobs = FirstRows(hook.k - hook.inflight)
        /\ RowFailed =>
             /\ hook.k <= hook.n
             /\ hook.jobs = FirstRows(hook.k - 1)
             /\ Range(FirstRows(hook.k - 1)) \subseteq hook.files
             /\ hook.listed = << >>
        /\ hook.status = 200 =>
             /\ hook.jobs = FirstRows(hook.n)
             /\ hook.listed = hook.jobs
             /\ hook.files = Range(hook.jobs))
  /\ [][(hook.pc = "answered") => (hook' = hook)]_vars
  /\ [][(hook'.calls # hook.calls) =>
          /\ hook.inflight = 0
          /\ hook.jobs = FirstRows(hook.k)
          /\ hook'.calls = Append(hook.calls, hook'.calls[Len(hook'.calls)])]_vars

\* a CSV with three rows: the first was merged, the second failed and was
\* answered 400, the third was never attempted
C35_Witness ==
  /\ hook.route = "merge-csv"
  /\ hook.n = 3
  /\ RowFailed /\ hook.status = 400
  /\ Len(hook.calls) = 2
  /\ hook.jobs = << 1 >>
  /\ 1 \in hook.files
  /\ hook.listed = << >>

\* the type of the uploaded file cannot be told, or is not a template type
Undetectable ==
  /\ fromBuffer(up.file.content) = NoFileType
  /\ extname(up.file.originalname) \notin { << ".", "h", "t", "m", "l" >>, << ".", "h", "t", "m" >> }
  /\ ~(extname(up.file.originalname) = << ".", "d", "o", "c", "x" >> /\ up.file.content = "pk")
NotAllowed == up.file.content \in {"zip", "png"}

\* C32: an upload whose type is undetectable or not allowed is answered 415,
\* one whose linter reports errors or diagnostics 422, and in both cases
\* nothing was put to storage and no Template was created; whatever is saved
\* was linted first; warnings alone do not block
C32_CheckBeforeSave ==
  /\ up.pc \notin {"idle", "check"} =>
       /\ (Undetectable \/ NotAllowed) <=> up.status = 415
       /\ up.errors <=> up.status = 422
       /\ up.status \in {415, 422} => (up.s3 = {} /\ up.templates = << >>)
       /\ (up.warned /\ ~up.errors) => up.status \notin {415, 422}
  /\ (up.s3 # {} \/ up.templates # << >>) =>
       /\ up.linted \in {"docx", "html"}
       /\ ~up.errors
       /\ up.fileType.mime \in {Mime.docx, Mime.html}
  /\ up.templates # << >> => up.s3 # {}

\* a docx file whose linter returned diagnostics: answered 422, nothing saved
C32_Witness ==
  /\ up.pc = "answered" /\ up.status = 422
  /\ up.file.content = "docx" /\ up.linted = "docx"
  /\ up.s3 = {} /\ up.templates = << >>

\* C36: the bytes mergeTemplate loads for a freshly uploaded template are the
\* bytes the upload stored
C36_LoadsWhatWasStored ==
  (up.pc = "merged" /\ up.mergeType # "unsupported") => up.buf = up.file.content

\* C38: the format detected and linted at upload is the format mergeTemplate
\* detects from the stored name
C38_FormatsAgree ==
  up.pc = "merged" => up.mergeType = up.linted

====
